---- MODULE Spec2Model ----
(***************************************************************************)
(* Model of the Resolve synthetic data generator (src/data/generate.py)    *)
(* and of the live incident trigger (src/demo/trigger_incident.py).        *)
(*                                                                         *)
(* Numbers: the generator computes with Python floats.  The model computes *)
(* with exact rationals <<n, d>> (d > 0, lowest terms); every literal of   *)
(* the source (0.3, 0.7, 1.5, ...) is the rational it denotes.  Fields the *)
(* source rounds with round(x, k) are kept as integers in units of 10^-k.  *)
(* random.uniform / random.randint / random.random / random.choice are     *)
(* nondeterministic choices over their ranges.                             *)
(***************************************************************************)
EXTENDS Integers, Sequences, FiniteSets, TLC

VARIABLES
    pc,              \* position of main(): "logs", "metrics", "done", or "doc"
    lg_minute,       \* generate_logs: minute of the outer loop
    lg_service,      \* generate_logs: index into SERVICES of the service loop
    lg_phase,        \* generate_logs: branch of the phase dispatch last taken
    lg_count,        \* generate_logs: count
    lg_error_ratio,  \* generate_logs: error_ratio
    lg_i,            \* generate_logs: i of `for i in range(count)`
    lg_appended,     \* generate_logs: documents appended for this (minute, service)
    log,             \* generate_logs: the document appended last (NoDoc before)
    m_minute,        \* generate_metrics: minute of the outer loop
    m_service,       \* generate_metrics: index into SERVICES
    m_host,          \* generate_metrics: index into HOSTS[service]
    mult,            \* generate_metrics: mult
    metrics,         \* generate_metrics: (minute, service, host) of each document appended
    metric,          \* generate_metrics: the document built last (NoDoc before)
    deployments,     \* generate_deployments: deployments
    alerts,          \* generate_alerts: alerts
    ev_i,            \* number of historical tuples the for loop has consumed
    clock,           \* datetime.now(), in milliseconds after the first reading
    ck_prev,         \* the call of ts / now_ts before the last one (NoDoc before)
    ck_last,         \* the last call of ts / now_ts: variant, offset, result
    sk_site,         \* the call of write_ndjson / bulk_index being executed
    sk_docs,         \* its docs argument
    sk_lines,        \* bulk_index: lines
    sk_body,         \* the text of the file / of the request body (NoDoc before)
    env_file,        \* the .env file: whether it exists, and its lines
    env,             \* load_env: env
    tr_args,         \* the live trigger's args: recover, mode
    tr_step,         \* number of bulk_index calls main has made
    tr_writes,       \* the bulk requests sent: index, docs and outcome of each
    tr_slept,        \* seconds main has slept between its bulk requests
    tr_exit,         \* exit status of the live trigger (None while running)
    run_a,           \* a run of the batch generator: documents so far
    run_b,           \* a second run with the same seed and base time
    incidents,       \* the resolve-incidents index: _source of each document, oldest first
    rc_existing,     \* the ids the index held when the receiver connected
    seen_ids,        \* on-call receiver: seen_ids
    rendered,        \* on-call receiver: the notifications rendered for each id
    rc_skipped       \* on-call receiver: the last poll skipped a rendered id

vars == <<pc, lg_minute, lg_service, lg_phase, lg_count,
          lg_error_ratio, lg_i, lg_appended, log,
          m_minute, m_service, m_host, mult, metrics, metric,
          deployments, alerts, ev_i, clock, ck_prev, ck_last,
          sk_site, sk_docs, sk_lines, sk_body,
          env_file, env, tr_args, tr_step, tr_writes, tr_slept, tr_exit,
          run_a, run_b,
          incidents, rc_existing, seen_ids, rendered, rc_skipped>>

\* the variables of generate_deployments and generate_alerts
ev_vars == <<deployments, alerts, ev_i>>

\* the variables that generate_logs and generate_metrics do not touch
\* the variables of the timeline clock, of the sinks, of the live trigger
ck_vars == <<clock, ck_prev, ck_last>>
sk_vars == <<sk_site, sk_docs, sk_lines, sk_body>>
tr_vars == <<env_file, env, tr_args, tr_step, tr_writes, tr_slept, tr_exit>>

\* the variables of the pair of runs
run_vars == <<run_a, run_b>>

\* the variables of the on-call receiver
rc_vars == <<incidents, rc_existing, seen_ids, rendered, rc_skipped>>

rest_vars == <<ev_vars, ck_vars, sk_vars, tr_vars, run_vars, rc_vars>>

NoDoc == [none |-> TRUE]

----------------------------------------------------------------------------
(* Bounds of the model *)

\* random.uniform(-pct, pct) is drawn from JitterSteps + 1 evenly spaced
\* points of [-pct, pct], both ends included.
JitterSteps == 1

\* random.uniform(0, 59) is drawn from SecondSteps + 1 evenly spaced points
\* of [0, 59], both ends included.
SecondSteps == 1

\* datetime.now() advances at most MaxClock milliseconds during a run.
MaxClock == 3

\* a sink is handed at most MaxDocs documents.
MaxDocs == 3

\* the .env file has at most MaxEnvLines lines.
MaxEnvLines == 2

\* a pair of runs is followed for at most MaxRunDocs loop iterations of each
\* generator.
MaxRunDocs == 2

\* uuid.uuid4() returns one of UuidValues values.
UuidValues == 2

----------------------------------------------------------------------------
(* Exact rational arithmetic *)

RECURSIVE GCD(_, _)
GCD(a, b) == IF b = 0 THEN a ELSE GCD(b, a % b)

Abs(x) == IF x < 0 THEN -x ELSE x

Rat(n, d) ==
    LET g == GCD(Abs(n), d) IN <<n \div g, d \div g>>

RInt(n) == <<n, 1>>
RAdd(a, b) == Rat(a[1] * b[2] + b[1] * a[2], a[2] * b[2])
RSub(a, b) == Rat(a[1] * b[2] - b[1] * a[2], a[2] * b[2])
RMul(a, b) ==
    LET g1 == GCD(Abs(a[1]), b[2])
        g2 == GCD(Abs(b[1]), a[2])
    IN  <<(a[1] \div g1) * (b[1] \div g2), (a[2] \div g2) * (b[2] \div g1)>>
RDiv(a, b) == RMul(a, <<b[2], b[1]>>)
RLt(a, b) == a[1] * b[2] < b[1] * a[2]
RLe(a, b) == a[1] * b[2] <= b[1] * a[2]
RMin(a, b) == IF RLe(a, b) THEN a ELSE b
RMax(a, b) == IF RLe(a, b) THEN b ELSE a

\* floor(r * 10^k) and the remainder, by long division
RECURSIVE Shift(_, _, _, _)
Shift(q, r, d, k) ==
    IF k = 0 THEN <<q, r>>
    ELSE Shift(q * 10 + ((r * 10) \div d), (r * 10) % d, d, k - 1)

\* Python round(r, k) of a non-negative r: nearest multiple of 10^-k, ties to
\* the even one; the result is the integer r * 10^k rounded.
Round(r, k) ==
    LET s == Shift(r[1] \div r[2], r[1] % r[2], r[2], k)
        q == s[1]
        rem == s[2]
    IN  IF 2 * rem > r[2] THEN q + 1
        ELSE IF 2 * rem = r[2] /\ q % 2 = 1 THEN q + 1
        ELSE q

\* Python int(r) of a non-negative r
Trunc(r) == r[1] \div r[2]

----------------------------------------------------------------------------
(* Configuration *)

SERVICES == <<"order-service", "payment-service", "notification-service",
              "user-service", "api-gateway">>

HOSTS == [s \in {SERVICES[k] : k \in 1..Len(SERVICES)} |->
    CASE s = "order-service" -> <<"order-svc-01", "order-svc-02", "order-svc-03">>
      [] s = "payment-service" -> <<"payment-svc-01", "payment-svc-02">>
      [] s = "notification-service" -> <<"notif-svc-01", "notif-svc-02">>
      [] s = "user-service" -> <<"user-svc-01", "user-svc-02">>
      [] s = "api-gateway" -> <<"api-gw-01", "api-gw-02">>]

TOTAL_MINUTES == 120
INCIDENT_START_MIN == 60
INCIDENT_PEAK_MIN == 66
ALERT_FIRE_MIN == 70
ROLLBACK_MIN == 80
RECOVERY_MIN == 85
RESOLVED_MIN == 90

None == "None"

\* ts(base, offset_minutes): the timestamp, in whole seconds after base
\* (strftime prints whole seconds and drops the fraction)
ts(offset_minutes) == (offset_minutes[1] * 60) \div offset_minutes[2]

Phases == <<"baseline", "ramp-up", "peak", "rollback", "recovery", "resolved">>

----------------------------------------------------------------------------
(* get_incident_multipliers *)

Dimensions == {"cpu", "mem", "latency", "error_rate", "rps", "conns"}

Identity == [cpu |-> RInt(1), mem |-> RInt(1), latency |-> RInt(1),
             error_rate |-> RInt(1), rps |-> RInt(1), conns |-> RInt(1)]

BASELINE_METRICS == [s \in DOMAIN HOSTS |->
    CASE s = "order-service" ->
            [cpu |-> RInt(35), mem |-> RInt(55), latency |-> RInt(120),
             error_rate |-> Rat(2, 1000), rps |-> RInt(450), conns |-> RInt(180)]
      [] s = "payment-service" ->
            [cpu |-> RInt(28), mem |-> RInt(48), latency |-> RInt(95),
             error_rate |-> Rat(1, 1000), rps |-> RInt(320), conns |-> RInt(140)]
      [] s = "notification-service" ->
            [cpu |-> RInt(20), mem |-> RInt(40), latency |-> RInt(60),
             error_rate |-> Rat(1, 1000), rps |-> RInt(280), conns |-> RInt(100)]
      [] s = "user-service" ->
            [cpu |-> RInt(25), mem |-> RInt(45), latency |-> RInt(80),
             error_rate |-> Rat(1, 1000), rps |-> RInt(380), conns |-> RInt(150)]
      [] s = "api-gateway" ->
            [cpu |-> RInt(40), mem |-> RInt(50), latency |-> RInt(30),
             error_rate |-> Rat(1, 1000), rps |-> RInt(1200), conns |-> RInt(500)]]

\* The branch of the if/elif chain of get_incident_multipliers that a minute
\* takes: the early return for minutes outside the incident, then the four
\* branches that set progress.
MultPhase(minute) ==
    IF minute < INCIDENT_START_MIN \/ minute >= RESOLVED_MIN
    THEN (IF minute < INCIDENT_START_MIN THEN "baseline" ELSE "resolved")
    ELSE IF INCIDENT_START_MIN <= minute /\ minute < INCIDENT_PEAK_MIN THEN "ramp-up"
    ELSE IF INCIDENT_PEAK_MIN <= minute /\ minute < ROLLBACK_MIN THEN "peak"
    ELSE IF ROLLBACK_MIN <= minute /\ minute < RECOVERY_MIN THEN "rollback"
    ELSE "recovery"

\* Progress with the rollback branch climbing instead of descending
Progress_RollbackUp(minute) ==
    LET ph == MultPhase(minute) IN
    IF ph = "ramp-up"
    THEN Rat(minute - INCIDENT_START_MIN, INCIDENT_PEAK_MIN - INCIDENT_START_MIN)
    ELSE IF ph = "peak"
    THEN RInt(1)
    ELSE IF ph = "rollback"
    THEN RAdd(RInt(1), RMul(Rat(1, 2),
                Rat(minute - ROLLBACK_MIN, RECOVERY_MIN - ROLLBACK_MIN)))
    ELSE RMul(Rat(1, 2), RSub(RInt(1),
                Rat(minute - RECOVERY_MIN, RESOLVED_MIN - RECOVERY_MIN)))

\* Progress with the recovery branch starting again from 1
Progress_RecoveryFromOne(minute) ==
    LET ph == MultPhase(minute) IN
    IF ph = "ramp-up"
    THEN Rat(minute - INCIDENT_START_MIN, INCIDENT_PEAK_MIN - INCIDENT_START_MIN)
    ELSE IF ph = "peak"
    THEN RInt(1)
    ELSE IF ph = "rollback"
    THEN RSub(RInt(1), RMul(Rat(1, 2),
                Rat(minute - ROLLBACK_MIN, RECOVERY_MIN - ROLLBACK_MIN)))
    ELSE RSub(RInt(1),
                Rat(minute - RECOVERY_MIN, RESOLVED_MIN - RECOVERY_MIN))

\* progress, for a minute of the incident window
Progress(minute) ==
    LET ph == MultPhase(minute) IN
    IF ph = "ramp-up"
    THEN Rat(minute - INCIDENT_START_MIN, INCIDENT_PEAK_MIN - INCIDENT_START_MIN)
    ELSE IF ph = "peak"
    THEN RInt(1)
    ELSE IF ph = "rollback"
    THEN RSub(RInt(1), RMul(Rat(1, 2),
                Rat(minute - ROLLBACK_MIN, RECOVERY_MIN - ROLLBACK_MIN)))
    ELSE RMul(Rat(1, 2), RSub(RInt(1),
                Rat(minute - RECOVERY_MIN, RESOLVED_MIN - RECOVERY_MIN)))

\* Delayed without the delay: the downstream service follows progress
Delayed_NoDelay(progress, delay) == progress

\* Delayed with the delay fractions 0.3 and 0.5 exchanged
Delayed_Swapped(progress, delay) ==
    LET other == RSub(Rat(8, 10), delay) IN
    IF RLt(other, progress)
    THEN RDiv(RMax(RInt(0), RSub(progress, other)), RSub(RInt(1), other))
    ELSE RInt(0)

\* delayed = max(0, progress - delay) / (1 - delay) if progress > delay else 0
Delayed(progress, delay) ==
    IF RLt(delay, progress)
    THEN RDiv(RMax(RInt(0), RSub(progress, delay)), RSub(RInt(1), delay))
    ELSE RInt(0)

\* 1 + p * c  and  1 - p * c
Up(p, c) == RAdd(RInt(1), RMul(p, c))
Down(p, c) == RSub(RInt(1), RMul(p, c))

\* get_incident_multipliers without the user-service return and with the
\* api-gateway branch as the final else
get_incident_multipliers_NoControl(service, minute) ==
    IF minute < INCIDENT_START_MIN \/ minute >= RESOLVED_MIN THEN Identity
    ELSE LET progress == Progress(minute) IN
    IF service = "order-service" THEN
        [cpu |-> Up(progress, Rat(15, 10)), mem |-> Up(progress, Rat(4, 10)),
         latency |-> Up(progress, RInt(20)), error_rate |-> Up(progress, RInt(220)),
         rps |-> Down(progress, Rat(3, 10)), conns |-> Up(progress, Rat(15, 10))]
    ELSE IF service = "payment-service" THEN
        LET delayed == Delayed(progress, Rat(3, 10)) IN
        [cpu |-> Up(delayed, Rat(8, 10)), mem |-> Up(delayed, Rat(2, 10)),
         latency |-> Up(delayed, RInt(12)), error_rate |-> Up(delayed, RInt(150)),
         rps |-> Down(delayed, Rat(2, 10)), conns |-> Up(delayed, Rat(8, 10))]
    ELSE IF service = "notification-service" THEN
        LET delayed == Delayed(progress, Rat(5, 10)) IN
        [cpu |-> Up(delayed, Rat(6, 10)), mem |-> Up(delayed, Rat(3, 10)),
         latency |-> Up(delayed, RInt(8)), error_rate |-> Up(delayed, RInt(100)),
         rps |-> Down(delayed, Rat(15, 100)), conns |-> Up(delayed, Rat(6, 10))]
    ELSE
        [cpu |-> Up(progress, Rat(5, 10)), mem |-> Up(progress, Rat(1, 10)),
         latency |-> Up(progress, RInt(5)), error_rate |-> Up(progress, RInt(80)),
         rps |-> Up(progress, Rat(2, 10)), conns |-> Up(progress, Rat(4, 10))]

\* get_incident_multipliers with `and` for `or` in the first test, which
\* then never returns early
get_incident_multipliers_NoEarlyReturn(service, minute) ==
    IF minute < INCIDENT_START_MIN /\ minute >= RESOLVED_MIN THEN Identity
    ELSE IF service = "user-service" THEN Identity
    ELSE LET progress == Progress(minute) IN
    IF service = "order-service" THEN
        [cpu |-> Up(progress, Rat(15, 10)), mem |-> Up(progress, Rat(4, 10)),
         latency |-> Up(progress, RInt(20)), error_rate |-> Up(progress, RInt(220)),
         rps |-> Down(progress, Rat(3, 10)), conns |-> Up(progress, Rat(15, 10))]
    ELSE IF service = "payment-service" THEN
        LET delayed == Delayed(progress, Rat(3, 10)) IN
        [cpu |-> Up(delayed, Rat(8, 10)), mem |-> Up(delayed, Rat(2, 10)),
         latency |-> Up(delayed, RInt(12)), error_rate |-> Up(delayed, RInt(150)),
         rps |-> Down(delayed, Rat(2, 10)), conns |-> Up(delayed, Rat(8, 10))]
    ELSE IF service = "notification-service" THEN
        LET delayed == Delayed(progress, Rat(5, 10)) IN
        [cpu |-> Up(delayed, Rat(6, 10)), mem |-> Up(delayed, Rat(3, 10)),
         latency |-> Up(delayed, RInt(8)), error_rate |-> Up(delayed, RInt(100)),
         rps |-> Down(delayed, Rat(15, 100)), conns |-> Up(delayed, Rat(6, 10))]
    ELSE IF service = "api-gateway" THEN
        [cpu |-> Up(progress, Rat(5, 10)), mem |-> Up(progress, Rat(1, 10)),
         latency |-> Up(progress, RInt(5)), error_rate |-> Up(progress, RInt(80)),
         rps |-> Up(progress, Rat(2, 10)), conns |-> Up(progress, Rat(4, 10))]
    ELSE Identity

get_incident_multipliers(service, minute) ==
    IF minute < INCIDENT_START_MIN \/ minute >= RESOLVED_MIN THEN Identity
    ELSE IF service = "user-service" THEN Identity
    ELSE LET progress == Progress(minute) IN
    IF service = "order-service" THEN
        [cpu |-> Up(progress, Rat(15, 10)), mem |-> Up(progress, Rat(4, 10)),
         latency |-> Up(progress, RInt(20)), error_rate |-> Up(progress, RInt(220)),
         rps |-> Down(progress, Rat(3, 10)), conns |-> Up(progress, Rat(15, 10))]
    ELSE IF service = "payment-service" THEN
        LET delayed == Delayed(progress, Rat(3, 10)) IN
        [cpu |-> Up(delayed, Rat(8, 10)), mem |-> Up(delayed, Rat(2, 10)),
         latency |-> Up(delayed, RInt(12)), error_rate |-> Up(delayed, RInt(150)),
         rps |-> Down(delayed, Rat(2, 10)), conns |-> Up(delayed, Rat(8, 10))]
    ELSE IF service = "notification-service" THEN
        LET delayed == Delayed(progress, Rat(5, 10)) IN
        [cpu |-> Up(delayed, Rat(6, 10)), mem |-> Up(delayed, Rat(3, 10)),
         latency |-> Up(delayed, RInt(8)), error_rate |-> Up(delayed, RInt(100)),
         rps |-> Down(delayed, Rat(15, 100)), conns |-> Up(delayed, Rat(6, 10))]
    ELSE IF service = "api-gateway" THEN
        [cpu |-> Up(progress, Rat(5, 10)), mem |-> Up(progress, Rat(1, 10)),
         latency |-> Up(progress, RInt(5)), error_rate |-> Up(progress, RInt(80)),
         rps |-> Up(progress, Rat(2, 10)), conns |-> Up(progress, Rat(4, 10))]
    ELSE Identity

----------------------------------------------------------------------------
(* generate_metrics: one document *)

\* the draws random.uniform(-pct, pct) can return, pct in hundredths
Uniform(pct) ==
    {Rat(pct * (2 * k - JitterSteps), 100 * JitterSteps) : k \in 0..JitterSteps}

\* jitter(value, pct) with u the value random.uniform(-pct, pct) returned
jitter(value, u) == RMul(value, RAdd(RInt(1), u))

\* one draw for each of the six jitter calls of a document
JitterDraws ==
    [cpu : Uniform(5), mem : Uniform(3), latency : Uniform(10),
     error_rate : Uniform(5), rps : Uniform(8), conns : Uniform(10)]

\* EffectiveErrorRate with the multiplier left out
EffectiveErrorRate_NoMult(base, m) == RMin(base.error_rate, Rat(95, 100))

\* error_rate after the cap, before jitter
EffectiveErrorRate(base, m) == RMin(RMul(base.error_rate, m.error_rate), Rat(95, 100))

\* int(x) of a non-negative float x that stands for the rational r.  When r
\* is a whole number the float product may fall just below it and int() then
\* gives one less (order-service at minute 83: 122 for 180 * 2.05 / 3), so
\* both outcomes are kept.
IntOf(r) == IF r[2] = 1 /\ r[1] >= 1 THEN {r[1] - 1, r[1]} ELSE {Trunc(r)}

\* base["conns"] * mult["conns"] / len(HOSTS[service]), before int()
ConnsPerHost(service, m) ==
    RDiv(RMul(BASELINE_METRICS[service].conns, m.conns), RInt(Len(HOSTS[service])))

\* RpsPerHost with min for max
RpsPerHost_Min(service, m) ==
    RMin(RDiv(RMul(BASELINE_METRICS[service].rps, m.rps), RInt(Len(HOSTS[service]))),
         RInt(10))

\* rps: max(base["rps"] * mult["rps"] / len(HOSTS[service]), 10)
RpsPerHost(service, m) ==
    RMax(RDiv(RMul(BASELINE_METRICS[service].rps, m.rps), RInt(Len(HOSTS[service]))),
         RInt(10))

\* CappedCpu with max for min
CappedCpu_Max(base, m) == RMax(RMul(base.cpu, m.cpu), RInt(98))

\* cpu and mem after their caps
CappedCpu(base, m) == RMin(RMul(base.cpu, m.cpu), RInt(98))
CappedMem(base, m) == RMin(RMul(base.mem, m.mem), RInt(95))

\* The document generate_metrics appends for (service, host, minute), with
\* u the six jitter draws, conns the outcome of int() for conns and jconns
\* the outcome of int(jitter(conns, 0.1)).  cpu_percent, memory_percent,
\* request_latency_ms and requests_per_second are in tenths, error_rate in
\* ten-thousandths.
MetricDoc(service, host, minute, m, u, jconns) ==
    LET base == BASELINE_METRICS[service]
        error_rate == EffectiveErrorRate(base, m)
        cpu == CappedCpu(base, m)
        mem == CappedMem(base, m)
        latency == RMul(base.latency, m.latency)
        rps == RpsPerHost(service, m)
    IN  [timestamp |-> ts(RInt(minute)),
         service |-> service,
         host |-> host,
         cpu_percent |-> Round(jitter(cpu, u.cpu), 1),
         memory_percent |-> Round(jitter(mem, u.mem), 1),
         request_latency_ms |-> Round(jitter(latency, u.latency), 1),
         error_rate |-> Round(jitter(error_rate, u.error_rate), 4),
         requests_per_second |-> Round(jitter(rps, u.rps), 1),
         active_connections |-> IF jconns > 1 THEN jconns ELSE 1]

----------------------------------------------------------------------------
(* generate_logs *)

NORMAL_LOG_MESSAGES == [s \in DOMAIN HOSTS |->
    CASE s = "order-service" -> <<
            <<"info", "Order created successfully", None>>,
            <<"info", "Order status updated to processing", None>>,
            <<"info", "Inventory check passed for order {trace_id}", None>>,
            <<"info", "Payment authorization received", None>>,
            <<"warn", "Slow database query detected: 450ms", None>>,
            <<"info", "Order fulfillment initiated", None>>>>
      [] s = "payment-service" -> <<
            <<"info", "Payment processed successfully", None>>,
            <<"info", "Payment verification complete", None>>,
            <<"info", "Refund initiated for transaction {trace_id}", None>>,
            <<"info", "Card tokenization successful", None>>,
            <<"warn", "Payment retry attempt 1 of 3", None>>>>
      [] s = "notification-service" -> <<
            <<"info", "Email notification sent to customer", None>>,
            <<"info", "SMS notification queued", None>>,
            <<"info", "Push notification delivered", None>>,
            <<"info", "Batch notification job completed: 150 sent", None>>>>
      [] s = "user-service" -> <<
            <<"info", "User authentication successful", None>>,
            <<"info", "User profile updated", None>>,
            <<"info", "Password reset token generated", None>>,
            <<"info", "Session refreshed for user {trace_id}", None>>>>
      [] s = "api-gateway" -> <<
            <<"info", "Request routed to order-service", None>>,
            <<"info", "Request routed to payment-service", None>>,
            <<"info", "Rate limit check passed", None>>,
            <<"info", "JWT token validated", None>>,
            <<"warn", "Request approaching rate limit: 85% of quota", None>>>>]

INCIDENT_ERROR_MESSAGES_ORDER == <<
    <<"error", "Connection pool exhausted: max 5 connections reached, 23 waiting", "DB_POOL_EXHAUSTED">>,
    <<"error", "Failed to acquire database connection after 30000ms timeout", "DB_CONN_TIMEOUT">>,
    <<"critical", "Database connection pool depleted - all requests failing", "DB_POOL_CRITICAL">>,
    <<"error", "SQLException: Cannot acquire connection from pool - pool exhausted", "DB_POOL_EXHAUSTED">>,
    <<"error", "Order creation failed: database connection timeout after 30s", "DB_CONN_TIMEOUT">>,
    <<"error", "Transaction rollback: could not persist order to database", "TX_ROLLBACK">>,
    <<"critical", "Circuit breaker OPEN for database connections - 95% failure rate", "CIRCUIT_OPEN">>,
    <<"error", "Health check failed: database connection pool at 100% utilization", "HEALTH_CHECK_FAIL">>,
    <<"error", "Connection pool stats: active=5, idle=0, waiting=31, maxWait=30000ms", "DB_POOL_EXHAUSTED">>,
    <<"error", "Dropping request /api/orders - no database connections available", "DB_CONN_TIMEOUT">>>>

INCIDENT_ERROR_MESSAGES_PAYMENT == <<
    <<"error", "Timeout waiting for order-service response after 30000ms", "UPSTREAM_TIMEOUT">>,
    <<"error", "Failed to verify order status: upstream service unavailable", "SERVICE_UNAVAILABLE">>,
    <<"error", "Payment processing failed: order validation timeout", "UPSTREAM_TIMEOUT">>,
    <<"warn", "Retry attempt 3/3 for order-service call failed", "RETRY_EXHAUSTED">>,
    <<"error", "Circuit breaker OPEN for order-service - consecutive failures: 15", "CIRCUIT_OPEN">>>>

INCIDENT_ERROR_MESSAGES_NOTIF == <<
    <<"error", "Failed to fetch order details for notification: connection refused", "UPSTREAM_ERROR">>,
    <<"error", "Notification enrichment failed: order-service returned 503", "SERVICE_UNAVAILABLE">>,
    <<"warn", "Notification queue backing up: 450 pending, order-service unreachable", "QUEUE_BACKLOG">>,
    <<"error", "Email notification skipped: missing order data from upstream", "DATA_MISSING">>>>

INCIDENT_ERROR_MESSAGES_GATEWAY == <<
    <<"error", "502 Bad Gateway: order-service returned no response", "BAD_GATEWAY">>,
    <<"warn", "Elevated error rate on /api/v1/orders: 43% of requests failing", "HIGH_ERROR_RATE">>,
    <<"error", "Request timeout on /api/v1/orders after 60s", "GATEWAY_TIMEOUT">>>>

\* the trace id of a document; uuid4 is not modelled, every document gets
\* the same one
TraceId == "0a1b2c3d"

\* message.replace("{trace_id}", trace_id), for trace_id = TraceId
ReplaceTraceId(message, trace_id) ==
    CASE message = "Inventory check passed for order {trace_id}"
            -> "Inventory check passed for order 0a1b2c3d"
      [] message = "Refund initiated for transaction {trace_id}"
            -> "Refund initiated for transaction 0a1b2c3d"
      [] message = "Session refreshed for user {trace_id}"
            -> "Session refreshed for user 0a1b2c3d"
      [] OTHER -> message

\* LogPhase with the ramp-up branch closed at the peak minute (t <= 66)
LogPhase_InclusivePeak(t) ==
    IF t < INCIDENT_START_MIN \/ t >= RESOLVED_MIN
    THEN (IF t < INCIDENT_START_MIN THEN "baseline" ELSE "resolved")
    ELSE IF INCIDENT_START_MIN <= t /\ t <= INCIDENT_PEAK_MIN THEN "ramp-up"
    ELSE IF INCIDENT_PEAK_MIN <= t /\ t < ROLLBACK_MIN THEN "peak"
    ELSE IF ROLLBACK_MIN <= t /\ t < RECOVERY_MIN THEN "rollback"
    ELSE "recovery"

\* LogPhase with the rollback branch running to RESOLVED_MIN
LogPhase_NoRecovery(t) ==
    IF t < INCIDENT_START_MIN \/ t >= RESOLVED_MIN
    THEN (IF t < INCIDENT_START_MIN THEN "baseline" ELSE "resolved")
    ELSE IF INCIDENT_START_MIN <= t /\ t < INCIDENT_PEAK_MIN THEN "ramp-up"
    ELSE IF INCIDENT_PEAK_MIN <= t /\ t < ROLLBACK_MIN THEN "peak"
    ELSE IF ROLLBACK_MIN <= t /\ t < RESOLVED_MIN THEN "rollback"
    ELSE "recovery"

\* The branch of the if/elif chain of generate_logs that minute t takes
LogPhase(t) ==
    IF t < INCIDENT_START_MIN \/ t >= RESOLVED_MIN
    THEN (IF t < INCIDENT_START_MIN THEN "baseline" ELSE "resolved")
    ELSE IF INCIDENT_START_MIN <= t /\ t < INCIDENT_PEAK_MIN THEN "ramp-up"
    ELSE IF INCIDENT_PEAK_MIN <= t /\ t < ROLLBACK_MIN THEN "peak"
    ELSE IF ROLLBACK_MIN <= t /\ t < RECOVERY_MIN THEN "rollback"
    ELSE "recovery"

Volume(lo, hi, ratio) == [lo |-> lo, hi |-> hi, error_ratio |-> ratio]

\* The range count is drawn from, and error_ratio, for a service at minute t
LogProfile(service, t) ==
    LET ph == LogPhase(t) IN
    IF ph \in {"baseline", "resolved"} THEN Volume(2, 5, RInt(0))
    ELSE IF ph = "ramp-up" THEN
        LET progress == Rat(t - INCIDENT_START_MIN,
                            INCIDENT_PEAK_MIN - INCIDENT_START_MIN) IN
        IF service = "order-service"
        THEN Volume(5, 15, RMul(progress, Rat(7, 10)))
        ELSE IF service \in {"payment-service", "notification-service"}
        THEN Volume(3, 8, RMul(progress, Rat(3, 10)))
        ELSE IF service = "api-gateway"
        THEN Volume(3, 7, RMul(progress, Rat(2, 10)))
        ELSE Volume(2, 5, RInt(0))
    ELSE IF ph = "peak" THEN
        IF service = "order-service" THEN Volume(15, 30, Rat(8, 10))
        ELSE IF service = "payment-service" THEN Volume(8, 15, Rat(5, 10))
        ELSE IF service = "notification-service" THEN Volume(6, 12, Rat(4, 10))
        ELSE IF service = "api-gateway" THEN Volume(5, 10, Rat(3, 10))
        ELSE Volume(2, 5, RInt(0))
    ELSE IF ph = "rollback" THEN
        IF service = "order-service" THEN Volume(8, 15, Rat(3, 10))
        ELSE IF service \in {"payment-service", "notification-service"}
        THEN Volume(4, 8, Rat(15, 100))
        ELSE Volume(2, 5, Rat(2, 100))
    ELSE
        LET progress == Rat(t - RECOVERY_MIN, RESOLVED_MIN - RECOVERY_MIN) IN
        IF service = "order-service"
        THEN Volume(3, 8, RMul(Rat(3, 10), RSub(RInt(1), progress)))
        ELSE IF service \in {"payment-service", "notification-service"}
        THEN Volume(2, 5, RMul(Rat(15, 100), RSub(RInt(1), progress)))
        ELSE Volume(2, 5, RInt(0))

\* the values random.uniform(0, 59) can return
SecondOffsets == {Rat(59 * k, SecondSteps) : k \in 0..SecondSteps}

\* the values of  random.random() < error_ratio,  random.random() in [0, 1)
\* IsErrorDraws for random.random() <= error_ratio
IsErrorDraws_OrEqual(error_ratio) ==
    {b \in BOOLEAN : (b => RLe(RInt(0), error_ratio))
                     /\ (~b => RLt(error_ratio, RInt(1)))}

IsErrorDraws(error_ratio) ==
    {b \in BOOLEAN : (b => RLt(RInt(0), error_ratio))
                     /\ (~b => RLt(error_ratio, RInt(1)))}

\* ErrorTable with payment-service reading the order-service table
ErrorTable_PaymentFromOrder(service) ==
    CASE service = "order-service" -> INCIDENT_ERROR_MESSAGES_ORDER
      [] service = "payment-service" -> INCIDENT_ERROR_MESSAGES_ORDER
      [] service = "notification-service" -> INCIDENT_ERROR_MESSAGES_NOTIF
      [] service = "api-gateway" -> INCIDENT_ERROR_MESSAGES_GATEWAY
      [] OTHER -> <<>>

\* ErrorTable with api-gateway reading the notification-service table
ErrorTable_GatewayFromNotif(service) ==
    CASE service = "order-service" -> INCIDENT_ERROR_MESSAGES_ORDER
      [] service = "payment-service" -> INCIDENT_ERROR_MESSAGES_PAYMENT
      [] service = "notification-service" -> INCIDENT_ERROR_MESSAGES_NOTIF
      [] service = "api-gateway" -> INCIDENT_ERROR_MESSAGES_NOTIF
      [] OTHER -> <<>>

\* the error table generate_logs picks from for a service; <<>> for a
\* service without one (the `continue` branch)
ErrorTable(service) ==
    CASE service = "order-service" -> INCIDENT_ERROR_MESSAGES_ORDER
      [] service = "payment-service" -> INCIDENT_ERROR_MESSAGES_PAYMENT
      [] service = "notification-service" -> INCIDENT_ERROR_MESSAGES_NOTIF
      [] service = "api-gateway" -> INCIDENT_ERROR_MESSAGES_GATEWAY
      [] OTHER -> <<>>

\* LogDoc with the second offset added as minutes
LogDoc_OffsetInMinutes(service, t, second_offset, entry, is_error) ==
    [timestamp |-> ts(RAdd(RInt(t), second_offset)),
     level |-> entry[1],
     service |-> service,
     message |-> IF is_error THEN entry[2] ELSE ReplaceTraceId(entry[2], TraceId),
     error_code |-> entry[3]]

\* The document built from a table entry.  host, request_path, trace_id and
\* response_time_ms are drawn independently of the other fields and are not
\* kept; error_code is None when the source leaves the key out.
LogDoc(service, t, second_offset, entry, is_error) ==
    [timestamp |-> ts(RAdd(RInt(t), RDiv(second_offset, RInt(60)))),
     level |-> entry[1],
     service |-> service,
     message |-> IF is_error THEN entry[2] ELSE ReplaceTraceId(entry[2], TraceId),
     error_code |-> entry[3]]

----------------------------------------------------------------------------
(* main: generate_logs, then generate_metrics *)

\* generate_deployments and generate_alerts not called
EventsIdle ==
    /\ deployments = <<>>
    /\ alerts = <<>>
    /\ ev_i = 0

\* no timestamp resolved
ClockIdle ==
    /\ clock = 0
    /\ ck_prev = NoDoc
    /\ ck_last = NoDoc

\* no sink called
SinkIdle ==
    /\ sk_site = NoDoc
    /\ sk_docs = <<>>
    /\ sk_lines = <<>>
    /\ sk_body = NoDoc

\* the live trigger not started
TriggerIdle ==
    /\ env_file = NoDoc
    /\ env = NoDoc
    /\ tr_args = NoDoc
    /\ tr_step = 0
    /\ tr_writes = <<>>
    /\ tr_slept = 0
    /\ tr_exit = None

\* no pair of runs started
RunsIdle ==
    /\ run_a = NoDoc
    /\ run_b = NoDoc

\* the on-call receiver not started
ReceiverIdle ==
    /\ incidents = <<>>
    /\ rc_existing = {}
    /\ seen_ids = {}
    /\ rendered = <<>>
    /\ rc_skipped = FALSE

RestIdle ==
    EventsIdle /\ ClockIdle /\ SinkIdle /\ TriggerIdle /\ RunsIdle /\ ReceiverIdle


Init ==
    /\ pc = "logs"
    /\ lg_minute = 0
    /\ lg_service = 0
    /\ lg_phase = None
    /\ lg_count = 0
    /\ lg_error_ratio = RInt(0)
    /\ lg_i = 0
    /\ lg_appended = 0
    /\ log = NoDoc
    /\ m_minute = 0
    /\ m_service = 0
    /\ m_host = 0
    /\ mult = Identity
    /\ metrics = <<>>
    /\ metric = NoDoc
    /\ RestIdle

lg_vars == <<lg_minute, lg_service, lg_phase, lg_count, lg_error_ratio,
             lg_i, lg_appended, log>>
m_vars == <<m_minute, m_service, m_host, mult, metrics, metric>>

LastService(k) == k = Len(SERVICES)

\* generate_logs, the head of the service loop: the next (minute, service),
\* the phase dispatch, the draw of count
LogBegin ==
    /\ pc = "logs"
    /\ lg_i = lg_count
    /\ ~(lg_minute = TOTAL_MINUTES - 1 /\ LastService(lg_service))
    /\ LET t == IF LastService(lg_service) THEN lg_minute + 1 ELSE lg_minute
           k == IF LastService(lg_service) THEN 1 ELSE lg_service + 1
           profile == LogProfile(SERVICES[k], t)
       IN  /\ lg_minute' = t
           /\ lg_service' = k
           /\ lg_phase' = LogPhase(t)
           /\ \E count \in profile.lo .. profile.hi : lg_count' = count
           /\ lg_error_ratio' = profile.error_ratio
    /\ lg_i' = 0
    /\ lg_appended' = 0
    /\ UNCHANGED <<pc, log>>
    /\ UNCHANGED m_vars
    /\ UNCHANGED rest_vars

\* generate_logs, one pass of `for i in range(count)` that appends a document
LogEmit ==
    /\ pc = "logs"
    /\ lg_i < lg_count
    /\ LET service == SERVICES[lg_service] IN
       \E second_offset \in SecondOffsets, is_error \in IsErrorDraws(lg_error_ratio) :
          LET table == IF is_error THEN ErrorTable(service)
                       ELSE NORMAL_LOG_MESSAGES[service]
          IN  \E c \in 1..Len(table) :
                 log' = LogDoc(service, lg_minute, second_offset, table[c], is_error)
    /\ lg_i' = lg_i + 1
    /\ lg_appended' = lg_appended + 1
    /\ UNCHANGED <<pc, lg_minute, lg_service, lg_phase, lg_count, lg_error_ratio>>
    /\ UNCHANGED m_vars
    /\ UNCHANGED rest_vars

\* generate_logs, one pass of `for i in range(count)` that ends in `continue`:
\* is_error for a service without an error table
LogContinue ==
    /\ pc = "logs"
    /\ lg_i < lg_count
    /\ TRUE \in IsErrorDraws(lg_error_ratio)
    /\ ErrorTable(SERVICES[lg_service]) = <<>>
    /\ lg_i' = lg_i + 1
    /\ UNCHANGED <<pc, lg_minute, lg_service, lg_phase, lg_count, lg_error_ratio,
                   lg_appended, log>>
    /\ UNCHANGED m_vars
    /\ UNCHANGED rest_vars

\* generate_logs returns
LogReturn ==
    /\ pc = "logs"
    /\ lg_i = lg_count
    /\ lg_minute = TOTAL_MINUTES - 1 /\ LastService(lg_service)
    /\ pc' = "metrics"
    /\ UNCHANGED lg_vars
    /\ UNCHANGED m_vars
    /\ UNCHANGED rest_vars

\* HostsDone after the first host: the host loop left after one pass
HostsDone_FirstOnly ==
    IF m_service = 0 THEN TRUE ELSE m_host >= 1

HostsDone ==
    IF m_service = 0 THEN TRUE ELSE m_host = Len(HOSTS[SERVICES[m_service]])

\* generate_metrics, the head of the service loop: the next (minute, service),
\* base and mult
MetricsBegin ==
    /\ pc = "metrics"
    /\ HostsDone
    /\ ~(m_minute = TOTAL_MINUTES - 1 /\ LastService(m_service))
    /\ LET t == IF LastService(m_service) THEN m_minute + 1 ELSE m_minute
           k == IF LastService(m_service) THEN 1 ELSE m_service + 1
       IN  /\ m_minute' = t
           /\ m_service' = k
           /\ mult' = get_incident_multipliers(SERVICES[k], t)
    /\ m_host' = 0
    /\ UNCHANGED <<pc, metrics, metric>>
    /\ UNCHANGED lg_vars
    /\ UNCHANGED rest_vars

\* generate_metrics, one pass of `for host in HOSTS[service]`
MetricsEmit ==
    /\ pc = "metrics"
    /\ ~HostsDone
    /\ LET service == SERVICES[m_service]
           host == HOSTS[service][m_host + 1]
       IN  metrics' = Append(metrics, <<m_minute, service, host>>)
    /\ m_host' = m_host + 1
    /\ UNCHANGED <<pc, m_minute, m_service, mult, metric>>
    /\ UNCHANGED lg_vars
    /\ UNCHANGED rest_vars

\* generate_metrics returns
MetricsReturn ==
    /\ pc = "metrics"
    /\ HostsDone
    /\ m_minute = TOTAL_MINUTES - 1 /\ LastService(m_service)
    /\ pc' = "done"
    /\ UNCHANGED lg_vars
    /\ UNCHANGED m_vars
    /\ UNCHANGED rest_vars

Next ==
    \/ LogBegin
    \/ LogEmit
    \/ LogContinue
    \/ LogReturn
    \/ MetricsBegin
    \/ MetricsEmit
    \/ MetricsReturn

Spec == Init /\ [][Next]_vars

----------------------------------------------------------------------------
(* generate_metrics, one document: the body of the host loop at any          *)
(* (minute, service, host) of the loops, with every draw of the six jitters *)

InitMetricDoc ==
    /\ pc = "doc"
    /\ lg_minute = 0
    /\ lg_service = 0
    /\ lg_phase = None
    /\ lg_count = 0
    /\ lg_error_ratio = RInt(0)
    /\ lg_i = 0
    /\ lg_appended = 0
    /\ log = NoDoc
    /\ m_minute \in 0 .. TOTAL_MINUTES - 1
    /\ m_service \in 1 .. Len(SERVICES)
    /\ m_host \in 0 .. Len(HOSTS[SERVICES[m_service]]) - 1
    /\ mult = get_incident_multipliers(SERVICES[m_service], m_minute)
    /\ metrics = <<>>
    /\ metric = NoDoc
    /\ RestIdle

BuildMetric ==
    /\ pc = "doc"
    /\ metric = NoDoc
    /\ LET service == SERVICES[m_service]
           host == HOSTS[service][m_host + 1]
       IN  \E u \in JitterDraws :
           \E conns \in IntOf(ConnsPerHost(service, mult)) :
           \E jconns \in IntOf(jitter(RInt(conns), u.conns)) :
              metric' = MetricDoc(service, host, m_minute, mult, u, jconns)
    /\ UNCHANGED <<pc, m_minute, m_service, m_host, mult, metrics>>
    /\ UNCHANGED lg_vars
    /\ UNCHANGED rest_vars

NextMetricDoc == BuildMetric

SpecMetricDoc == InitMetricDoc /\ [][NextMetricDoc]_vars

----------------------------------------------------------------------------
(* generate_deployments and generate_alerts                                 *)
(*                                                                          *)
(* A text (changes, message, condition) is the sequence of its fragments,   *)
(* cut where the code or a property looks inside it.  A key that a dict     *)
(* does not have is a field the record does not have.                       *)

\* generate_logs and generate_metrics not called
GenIdle ==
    /\ lg_minute = 0
    /\ lg_service = 0
    /\ lg_phase = None
    /\ lg_count = 0
    /\ lg_error_ratio = RInt(0)
    /\ lg_i = 0
    /\ lg_appended = 0
    /\ log = NoDoc
    /\ m_minute = 0
    /\ m_service = 0
    /\ m_host = 0
    /\ mult = Identity
    /\ metrics = <<>>
    /\ metric = NoDoc

gen_vars == <<lg_vars, m_vars>>

\* what generate_deployments and generate_alerts leave alone
ev_frame == <<gen_vars, ck_vars, sk_vars, tr_vars, run_vars, rc_vars>>

DEPLOYERS == <<"alice.chen", "bob.kumar", "carol.okonkwo", "david.miller",
               "eve.nakamura">>

\* uuid.uuid4().hex of the k-th value, as <<the first 7 digits, the 8th>>
HexPool == <<"3f2a9c1", "b07d4e8", "c95e01a", "6d18f42">>
uuid4_hex(k) == <<HexPool[((k - 1) % Len(HexPool)) + 1], "d">>
Uuids == 1 .. UuidValues

\* hex[:7] and hex[:8]
Hex7(hex) == hex[1]
Hex8(hex) == hex[1] \o hex[2]

\* substring in text
Contains(text, substring) == \E k \in 1 .. Len(text) : text[k] = substring

\* (offset, service, version, changes) of generate_deployments
historical == <<
    <<-2880, "user-service", "3.1.0",
      <<"Improved session handling and token refresh">> >>,
    <<-2160, "api-gateway", "2.8.5",
      <<"Updated rate limiting configuration">> >>,
    <<-1440, "notification-service", "1.5.2",
      <<"Added batch notification support">> >>,
    <<-720, "payment-service", "4.2.1",
      <<"PCI compliance updates for card tokenization">> >>,
    <<-360, "order-service", "2.3.9",
      <<"Performance optimization for bulk order queries">> >> >>

\* the document the loop of generate_deployments appends
HistoricalDeployment(h, deployer, hex) ==
    [timestamp |-> ts(RInt(h[1])), service |-> h[2], version |-> h[3],
     deployer |-> deployer, status |-> "success",
     commit_hash |-> Hex7(hex), changes |-> h[4]]

\* BadDeployment dated at the rollback minute
BadDeployment_AtRollback ==
    [timestamp |-> ts(RInt(ROLLBACK_MIN)), service |-> "order-service",
     version |-> "2.4.1", deployer |-> "bob.kumar", status |-> "success",
     commit_hash |-> "a3f7c21",
     changes |-> <<"Updated database connection pool configuration and added new order validation logic. Changed max pool size from 50 to 5 for testing - ",
                   "FORGOT TO REVERT", ".">>]

BadDeployment ==
    [timestamp |-> ts(RInt(58)), service |-> "order-service",
     version |-> "2.4.1", deployer |-> "bob.kumar", status |-> "success",
     commit_hash |-> "a3f7c21",
     changes |-> <<"Updated database connection pool configuration and added new order validation logic. Changed max pool size from 50 to 5 for testing - ",
                   "FORGOT TO REVERT", ".">>]

RollbackDeployment ==
    [timestamp |-> ts(RInt(ROLLBACK_MIN)), service |-> "order-service",
     version |-> "2.3.9", deployer |-> "alice.chen", status |-> "rollback",
     commit_hash |-> "b8e4d12",
     changes |-> <<"Emergency rollback to v2.3.9 due to database connection pool exhaustion in v2.4.1">>,
     rollback_of |-> "2.4.1"]

\* (offset, severity, service, message, threshold, actual, status) of
\* generate_alerts; the message is cut at " above "
historical_alerts == <<
    <<-1440, "medium", "user-service",
      <<"Memory usage", " above ", "75% threshold">>,
      Rat(75, 100), Rat(78, 100), "resolved">>,
    <<-720, "low", "api-gateway",
      <<"Request latency P99", " above ", "500ms">>,
      RInt(500), RInt(520), "resolved">>,
    <<-360, "low", "notification-service",
      <<"Queue depth", " above ", "200">>,
      RInt(200), RInt(215), "resolved">> >>

\* f"{message.split(' above ')[0]} above threshold"
Condition(message) == <<message[1], " above threshold">>

\* the document the loop of generate_alerts appends
HistoricalAlert(h, hex) ==
    [timestamp |-> ts(RInt(h[1])), alert_id |-> "ALT-" \o Hex8(hex),
     severity |-> h[2], service |-> h[3], condition |-> Condition(h[4]),
     message |-> h[4], status |-> h[7], threshold_value |-> h[5],
     actual_value |-> h[6]]

\* CriticalAlert dated two minutes after the cascading alert
CriticalAlert_Late ==
    [timestamp |-> ts(RInt(ALERT_FIRE_MIN + 4)), alert_id |-> "ALT-CRITICAL-001",
     severity |-> "critical", service |-> "order-service",
     condition |-> <<"error_rate > 0.30 for 5 minutes">>,
     message |-> <<"CRITICAL: order-service error rate has exceeded 30% for the last 5 minutes. Current error rate: 45%. Cascading failures detected in payment-service and notification-service.">>,
     status |-> "firing", threshold_value |-> Rat(30, 100),
     actual_value |-> Rat(45, 100)]

CriticalAlert ==
    [timestamp |-> ts(RInt(ALERT_FIRE_MIN)), alert_id |-> "ALT-CRITICAL-001",
     severity |-> "critical", service |-> "order-service",
     condition |-> <<"error_rate > 0.30 for 5 minutes">>,
     message |-> <<"CRITICAL: order-service error rate has exceeded 30% for the last 5 minutes. Current error rate: 45%. Cascading failures detected in payment-service and notification-service.">>,
     status |-> "firing", threshold_value |-> Rat(30, 100),
     actual_value |-> Rat(45, 100)]

CascadingAlert ==
    [timestamp |-> ts(RInt(ALERT_FIRE_MIN + 2)), alert_id |-> "ALT-HIGH-002",
     severity |-> "high", service |-> "payment-service",
     condition |-> <<"error_rate > 0.15 for 3 minutes">>,
     message |-> <<"HIGH: payment-service error rate at 22%. Upstream dependency (order-service) is degraded.">>,
     status |-> "firing", threshold_value |-> Rat(15, 100),
     actual_value |-> Rat(22, 100)]

\* one of the two generators is called, with empty lists
InitEvents ==
    /\ pc \in {"generate_deployments", "generate_alerts"}
    /\ GenIdle
    /\ RunsIdle
    /\ ReceiverIdle
    /\ EventsIdle
    /\ ClockIdle
    /\ SinkIdle
    /\ TriggerIdle

\* one iteration of `for offset, service, version, changes in historical`
DeploymentsAppendHistorical ==
    /\ pc = "generate_deployments"
    /\ ev_i < Len(historical)
    /\ \E k \in 1 .. Len(DEPLOYERS) : \E u \in Uuids :
          deployments' = Append(deployments,
              HistoricalDeployment(historical[ev_i + 1], DEPLOYERS[k], uuid4_hex(u)))
    /\ ev_i' = ev_i + 1
    /\ UNCHANGED <<pc, alerts>>
    /\ UNCHANGED ev_frame

\* after the loop: the bad deployment, the rollback, return
DeploymentsReturn ==
    /\ pc = "generate_deployments"
    /\ ev_i = Len(historical)
    /\ deployments' = deployments \o <<BadDeployment, RollbackDeployment>>
    /\ pc' = "deployments_returned"
    /\ UNCHANGED <<alerts, ev_i>>
    /\ UNCHANGED ev_frame

\* one iteration of `for offset, severity, ... in historical_alerts`
AlertsAppendHistorical ==
    /\ pc = "generate_alerts"
    /\ ev_i < Len(historical_alerts)
    /\ \E u \in Uuids :
          alerts' = Append(alerts,
              HistoricalAlert(historical_alerts[ev_i + 1], uuid4_hex(u)))
    /\ ev_i' = ev_i + 1
    /\ UNCHANGED <<pc, deployments>>
    /\ UNCHANGED ev_frame

\* after the loop: the critical alert, the cascading alert, return
AlertsReturn ==
    /\ pc = "generate_alerts"
    /\ ev_i = Len(historical_alerts)
    /\ alerts' = alerts \o <<CriticalAlert, CascadingAlert>>
    /\ pc' = "alerts_returned"
    /\ UNCHANGED <<deployments, ev_i>>
    /\ UNCHANGED ev_frame

NextEvents ==
    \/ DeploymentsAppendHistorical
    \/ DeploymentsReturn
    \/ AlertsAppendHistorical
    \/ AlertsReturn

SpecEvents == InitEvents /\ [][NextEvents]_vars

----------------------------------------------------------------------------
(* The timeline clock: ts of the batch generator, now_ts of the live        *)
(* trigger.  A timestamp is a number of seconds (ts, which prints ".000")   *)
(* or of milliseconds (now_ts, which cuts the microseconds to three digits) *)
(* after the instant the run starts from.                                   *)

\* now_ts(offset_seconds), called when datetime.now() reads `now`
now_ts(offset_seconds, now) ==
    now + ((offset_seconds[1] * 1000) \div offset_seconds[2])

\* minute offsets the batch generator resolves: history, the timeline
\* constants, a log's t + second_offset / 60
MinuteOffsets ==
    {RInt(-2880), RInt(-360), RInt(0), RInt(58), Rat(3659, 60), RInt(ROLLBACK_MIN)}

\* second offsets the live trigger resolves: baseline batches, the incident
\* documents, t_offset + random.uniform(0, 10)
SecondOffsets_Live ==
    {RInt(-180), RInt(-120), RInt(0), Rat(7, 2), RInt(5), RInt(10)}

Call(variant, offset, result) ==
    [variant |-> variant, offset |-> offset, result |-> result]

\* what the timeline clock leaves alone
ck_frame == <<gen_vars, ev_vars, sk_vars, tr_vars, run_vars, rc_vars>>

InitClock ==
    /\ pc = "clock"
    /\ GenIdle
    /\ RunsIdle
    /\ ReceiverIdle
    /\ EventsIdle
    /\ ClockIdle
    /\ SinkIdle
    /\ TriggerIdle

\* time passes between two calls
Tick ==
    /\ pc = "clock"
    /\ clock < MaxClock
    /\ clock' = clock + 1
    /\ UNCHANGED <<pc, ck_prev, ck_last>>
    /\ UNCHANGED ck_frame

\* a call ts(base_time, offset_minutes)
ResolveTs ==
    /\ pc = "clock"
    /\ \E offset \in MinuteOffsets :
          ck_last' = Call("ts", offset, ts(offset))
    /\ ck_prev' = ck_last
    /\ UNCHANGED <<pc, clock>>
    /\ UNCHANGED ck_frame

\* a call now_ts(offset_seconds)
ResolveNowTs ==
    /\ pc = "clock"
    /\ \E offset \in SecondOffsets_Live :
          ck_last' = Call("now_ts", offset, now_ts(offset, clock))
    /\ ck_prev' = ck_last
    /\ UNCHANGED <<pc, clock>>
    /\ UNCHANGED ck_frame

NextClock == Tick \/ ResolveTs \/ ResolveNowTs

SpecClock == InitClock /\ [][NextClock]_vars

----------------------------------------------------------------------------
(* The sinks: write_ndjson of the batch generator, bulk_index and the       *)
(* list branch of es_request of the live trigger.  A text is the sequence   *)
(* of its pieces: the strings json.dumps returns and the newlines between.  *)

\* json.dumps(x): a string, not the value
JsonDumps(x) == [json |-> x]

\* "\n"
Newline == [newline |-> TRUE]

\* {"index": {"_index": index_name}}
IndexAction(index_name) == [index |-> [_index |-> index_name]]

\* the calls of the sinks: function, index name, what builds the docs
CallSites == {
    <<"write_ndjson", "resolve-logs", "generate_logs">>,
    <<"write_ndjson", "resolve-metrics", "generate_metrics">>,
    <<"write_ndjson", "resolve-deployments", "generate_deployments">>,
    <<"write_ndjson", "resolve-runbooks", "generate_runbooks">>,
    <<"write_ndjson", "resolve-alerts", "generate_alerts">>,
    <<"bulk_index", "resolve-deployments", "gen_rollback_deployment">>,
    <<"bulk_index", "resolve-metrics", "gen_recovery_metrics">>,
    <<"bulk_index", "resolve-logs", "recovery_logs">>,
    <<"bulk_index", "resolve-metrics", "gen_baseline_metrics">>,
    <<"bulk_index", "resolve-deployments", "gen_bad_deployment">>,
    <<"bulk_index", "resolve-logs", "gen_error_logs">>,
    <<"bulk_index", "resolve-metrics", "gen_incident_metrics">>,
    <<"bulk_index", "resolve-alerts", "gen_alert">> }

\* the type of document each builder returns
DocTypeOf(builder) ==
    CASE builder \in {"generate_logs", "recovery_logs", "gen_error_logs"} -> "log"
      [] builder \in {"generate_metrics", "gen_recovery_metrics",
                      "gen_baseline_metrics", "gen_incident_metrics"} -> "metric"
      [] builder \in {"generate_deployments", "gen_rollback_deployment",
                      "gen_bad_deployment"} -> "deployment"
      [] builder = "generate_runbooks" -> "runbook"
      [] builder \in {"generate_alerts", "gen_alert"} -> "alert"

\* the lists of documents a builder hands to a sink: never empty, at most
\* MaxDocs long; a document is its type and one of two contents
DocsOf(builder) ==
    UNION {[1 .. n -> [type : {DocTypeOf(builder)}, content : {1, 2}]] :
               n \in 1 .. MaxDocs}

\* the action line and the document line, in the order the document comes first
PairOf_DocFirst(index_name, doc) ==
    <<JsonDumps(doc), JsonDumps(IndexAction(index_name))>>

\* the action line and the document line of one document
PairOf(index_name, doc) ==
    <<JsonDumps(IndexAction(index_name)), JsonDumps(doc)>>

\* f"{action}\n{data}\n"
Written(pair) == <<pair[1], Newline, pair[2], Newline>>

\* "\n".join(data) + "\n"
RECURSIVE Join(_)
Join(data) ==
    IF Len(data) = 0 THEN <<>>
    ELSE IF Len(data) = 1 THEN <<data[1]>>
    ELSE <<data[1], Newline>> \o Join(Tail(data))

Body(data) == Join(data) \o <<Newline>>

\* what the sinks leave alone
sk_frame == <<gen_vars, ev_vars, ck_vars, tr_vars, run_vars, rc_vars>>

\* a sink is called at one of its call sites; write_ndjson opens the file
\* for writing, which empties it
InitSink ==
    /\ pc = "sink"
    /\ GenIdle
    /\ RunsIdle
    /\ ReceiverIdle
    /\ EventsIdle
    /\ ClockIdle
    /\ TriggerIdle
    /\ sk_site \in CallSites
    /\ sk_docs \in DocsOf(sk_site[3])
    /\ sk_lines = <<>>
    /\ sk_body = IF sk_site[1] = "write_ndjson" THEN <<>> ELSE NoDoc

\* one iteration of `for doc in docs` of write_ndjson
WriteNdjsonStep ==
    /\ pc = "sink"
    /\ sk_site[1] = "write_ndjson"
    /\ Len(sk_body) < 4 * Len(sk_docs)
    /\ LET doc == sk_docs[(Len(sk_body) \div 4) + 1]
       IN  sk_body' = sk_body \o Written(PairOf(sk_site[2], doc))
    /\ UNCHANGED <<pc, sk_site, sk_docs, sk_lines>>
    /\ UNCHANGED sk_frame

\* the loop of write_ndjson is over, the file is closed
WriteNdjsonReturn ==
    /\ pc = "sink"
    /\ sk_site[1] = "write_ndjson"
    /\ Len(sk_body) = 4 * Len(sk_docs)
    /\ pc' = "sink_done"
    /\ UNCHANGED sk_vars
    /\ UNCHANGED sk_frame

\* one iteration of `for doc in docs` of bulk_index
BulkIndexStep ==
    /\ pc = "sink"
    /\ sk_site[1] = "bulk_index"
    /\ Len(sk_lines) < 2 * Len(sk_docs)
    /\ LET doc == sk_docs[(Len(sk_lines) \div 2) + 1]
       IN  sk_lines' = sk_lines \o PairOf(sk_site[2], doc)
    /\ UNCHANGED <<pc, sk_site, sk_docs, sk_body>>
    /\ UNCHANGED sk_frame

\* the loop of bulk_index is over: es_request builds the body from lines
BulkIndexRequest ==
    /\ pc = "sink"
    /\ sk_site[1] = "bulk_index"
    /\ Len(sk_lines) = 2 * Len(sk_docs)
    /\ sk_body' = Body(sk_lines)
    /\ pc' = "sink_done"
    /\ UNCHANGED <<sk_site, sk_docs, sk_lines>>
    /\ UNCHANGED sk_frame

NextSink ==
    \/ WriteNdjsonStep
    \/ WriteNdjsonReturn
    \/ BulkIndexStep
    \/ BulkIndexRequest

SpecSink == InitSink /\ [][NextSink]_vars

----------------------------------------------------------------------------
(* The live trigger: load_env, the credentials test of main, and the bulk   *)
(* requests main sends.  A line of .env, a key and a value are sequences of *)
(* pieces: names, "=", "#", blanks; the empty string is <<>>.               *)

\* str.strip()
RECURSIVE StripLeft(_)
StripLeft(text) ==
    IF Len(text) > 0 /\ text[1] = " " THEN StripLeft(Tail(text)) ELSE text

RECURSIVE StripRight(_)
StripRight(text) ==
    IF Len(text) > 0 /\ text[Len(text)] = " "
    THEN StripRight(SubSeq(text, 1, Len(text) - 1))
    ELSE text

Strip(text) == StripRight(StripLeft(text))

\* "=" in line, and the two parts of line.split("=", 1)
HasEquals(line) == \E k \in 1 .. Len(line) : line[k] = "="
FirstEquals(line) ==
    CHOOSE k \in 1 .. Len(line) :
        line[k] = "=" /\ \A j \in 1 .. k - 1 : line[j] # "="
SplitKey(line) == SubSeq(line, 1, FirstEquals(line) - 1)
SplitValue(line) == SubSeq(line, FirstEquals(line) + 1, Len(line))

\* env[key] = value
Put(e, key, value) ==
    [k \in DOMAIN e \cup {key} |-> IF k = key THEN value ELSE e[k]]

\* the loop `for line in f` of load_env, from the dict e
RECURSIVE ParseEnv(_, _)
ParseEnv(lines, e) ==
    IF Len(lines) = 0 THEN e
    ELSE LET line == Strip(lines[1]) IN
         IF Len(line) > 0 /\ line[1] # "#" /\ HasEquals(line)
         THEN ParseEnv(Tail(lines),
                       Put(e, Strip(SplitKey(line)), Strip(SplitValue(line))))
         ELSE ParseEnv(Tail(lines), e)

\* {}
EmptyEnv == [k \in {} |-> <<>>]

\* env.get(key, "")
EnvGet(e, key) == IF <<key>> \in DOMAIN e THEN e[<<key>>] ELSE <<>>

\* lines a .env file is made of: blank, comment, no "=", the two keys
\* with a value, with none, with blanks around, and a key with "=" in it
EnvLineKinds == {
    <<>>,
    <<"#", "API_KEY", "=", "k">>,
    <<"ES_URL">>,
    <<"ES_URL", "=", "https://es">>,
    <<"ES_URL", "=">>,
    <<"API_KEY", "=", "k", "=", "=">>,
    <<" ", "API_KEY", " ", "=", " ">>,
    <<" ", "API_KEY", " ", "=", " ", "k", " ">> }

EnvFiles ==
    {[exists |-> FALSE, lines |-> <<>>]} \cup
    {[exists |-> TRUE, lines |-> ls] :
        ls \in UNION {[1 .. n -> EnvLineKinds] : n \in 0 .. MaxEnvLines}}

\* the bulk_index calls of main with --recover, in order: index, docs,
\* the time.sleep before the call, the delay after it
RecoverySteps == <<
    <<"resolve-deployments", "gen_rollback_deployment()", 0, 0>>,
    <<"resolve-metrics", "gen_recovery_metrics(0)", 2, 0>>,
    <<"resolve-metrics", "gen_recovery_metrics(60)", 2, 0>>,
    <<"resolve-metrics", "gen_recovery_metrics(120)", 2, 0>>,
    <<"resolve-logs", "recovery_logs", 0, 0>> >>

\* IncidentSteps with the alert sent before the peak error logs
IncidentSteps_AlertFirst == <<
    <<"resolve-metrics", "gen_baseline_metrics(-180)", 0, 0>>,
    <<"resolve-metrics", "gen_baseline_metrics(-120)", 0, 0>>,
    <<"resolve-metrics", "gen_baseline_metrics(-60)", 0, 3>>,
    <<"resolve-deployments", "gen_bad_deployment()", 0, 5>>,
    <<"resolve-logs", "gen_error_logs(early)", 0, 5>>,
    <<"resolve-metrics", "gen_incident_metrics()", 0, 5>>,
    <<"resolve-alerts", "gen_alert()", 0, 5>>,
    <<"resolve-logs", "gen_error_logs(peak)", 0, 0>> >>

\* the bulk_index calls of main without --recover, in order
IncidentSteps == <<
    <<"resolve-metrics", "gen_baseline_metrics(-180)", 0, 0>>,
    <<"resolve-metrics", "gen_baseline_metrics(-120)", 0, 0>>,
    <<"resolve-metrics", "gen_baseline_metrics(-60)", 0, 3>>,
    <<"resolve-deployments", "gen_bad_deployment()", 0, 5>>,
    <<"resolve-logs", "gen_error_logs(early)", 0, 5>>,
    <<"resolve-metrics", "gen_incident_metrics()", 0, 5>>,
    <<"resolve-logs", "gen_error_logs(peak)", 0, 5>>,
    <<"resolve-alerts", "gen_alert()", 0, 0>> >>

\* delay(s): time.sleep(s) in realtime mode, nothing in batch mode
Delay(mode, seconds) == IF mode = "realtime" THEN seconds ELSE 0

StepsOf(args) == IF args.recover THEN RecoverySteps ELSE IncidentSteps

\* what urlopen can do in es_request: answer, answer with an HTTP error
\* status (caught, reported, None returned), or fail to connect or time out
\* (URLError, not caught)
Outcomes == {"ok", "HTTPError", "URLError"}

\* what the live trigger leaves alone
tr_frame == <<gen_vars, ev_vars, ck_vars, sk_vars, run_vars, rc_vars>>

InitTrigger ==
    /\ pc = "load_env"
    /\ GenIdle
    /\ RunsIdle
    /\ ReceiverIdle
    /\ EventsIdle
    /\ ClockIdle
    /\ SinkIdle
    /\ env_file \in EnvFiles
    /\ env = NoDoc
    /\ tr_args \in [recover : BOOLEAN, mode : {"realtime", "batch"}]
    /\ tr_step = 0
    /\ tr_writes = <<>>
    /\ tr_slept = 0
    /\ tr_exit = None

\* load_env(): sys.exit(1) if there is no file, else the parsed dict
LoadEnv ==
    /\ pc = "load_env"
    /\ IF ~env_file.exists
       THEN /\ tr_exit' = 1
            /\ pc' = "exited"
            /\ UNCHANGED env
       ELSE /\ env' = ParseEnv(env_file.lines, EmptyEnv)
            /\ pc' = "check_credentials"
            /\ UNCHANGED tr_exit
    /\ UNCHANGED <<env_file, tr_args, tr_step, tr_writes, tr_slept>>
    /\ UNCHANGED tr_frame

\* CheckCredentials testing es_url only
CheckCredentials_UrlOnly ==
    /\ pc = "check_credentials"
    /\ LET es_url == EnvGet(env, "ES_URL")
           api_key == EnvGet(env, "API_KEY")
       IN  IF es_url = <<>>
           THEN tr_exit' = 1 /\ pc' = "exited"
           ELSE pc' = "run" /\ UNCHANGED tr_exit
    /\ UNCHANGED <<env_file, env, tr_args, tr_step, tr_writes, tr_slept>>
    /\ UNCHANGED tr_frame

\* if not es_url or not api_key: sys.exit(1)
CheckCredentials ==
    /\ pc = "check_credentials"
    /\ LET es_url == EnvGet(env, "ES_URL")
           api_key == EnvGet(env, "API_KEY")
       IN  IF es_url = <<>> \/ api_key = <<>>
           THEN tr_exit' = 1 /\ pc' = "exited"
           ELSE pc' = "run" /\ UNCHANGED tr_exit
    /\ UNCHANGED <<env_file, env, tr_args, tr_step, tr_writes, tr_slept>>
    /\ UNCHANGED tr_frame

\* the next bulk_index call of main, with the sleep before it and the delay
\* after it: the request is sent; an HTTPError is reported and main goes on,
\* a URLError ends the process with a traceback
BulkWrite ==
    /\ pc = "run"
    /\ tr_step < Len(StepsOf(tr_args))
    /\ LET step == StepsOf(tr_args)[tr_step + 1] IN
       \E outcome \in Outcomes :
          /\ tr_writes' = Append(tr_writes,
                 [index |-> step[1], docs |-> step[2], outcome |-> outcome])
          /\ IF outcome = "URLError"
             THEN /\ tr_exit' = 1
                  /\ pc' = "exited"
                  /\ tr_slept' = tr_slept + step[3]
             ELSE /\ tr_slept' = tr_slept + step[3] + Delay(tr_args.mode, step[4])
                  /\ UNCHANGED <<tr_exit, pc>>
    /\ tr_step' = tr_step + 1
    /\ UNCHANGED <<env_file, env, tr_args>>
    /\ UNCHANGED tr_frame

\* main returns after its last bulk_index call
TriggerReturn ==
    /\ pc = "run"
    /\ tr_step = Len(StepsOf(tr_args))
    /\ tr_exit' = 0
    /\ pc' = "exited"
    /\ UNCHANGED <<env_file, env, tr_args, tr_step, tr_writes, tr_slept>>
    /\ UNCHANGED tr_frame

NextTrigger ==
    \/ LoadEnv
    \/ CheckCredentials
    \/ BulkWrite
    \/ TriggerReturn

SpecTrigger == InitTrigger /\ [][NextTrigger]_vars

----------------------------------------------------------------------------
(* Two runs of the batch generator with the same seed and the same base     *)
(* time.  random.seed(args.seed) makes every draw of the random module the  *)
(* same in both runs as long as both have made the same number of draws;    *)
(* uuid.uuid4() is not seeded and differs between the runs.  The two runs   *)
(* go through the loops of the generators together, one iteration at a      *)
(* time; each records the documents it has of each type, the keys of the    *)
(* document it appended last, the draws the iteration took from the random  *)
(* module, and the uuid it got.                                             *)

generate_runbooks == <<
    [title |-> "Database Connection Pool Exhaustion",
     service |-> "order-service",
     symptoms |-> "Connection pool exhausted errors, database connection timeouts, high number of waiting connections, circuit breaker open for database. Error codes: DB_POOL_EXHAUSTED, DB_CONN_TIMEOUT, CIRCUIT_OPEN.",
     resolution_steps |-> "1. Verify connection pool configuration in service config (expected: maxPoolSize=50, minIdle=10, maxWait=5000ms).\n2. Check if a recent deployment changed pool settings (git log --oneline -5).\n3. If pool size was reduced: IMMEDIATE ROLLBACK to previous version.\n4. If pool size is correct: Check for connection leaks using 'SELECT * FROM pg_stat_activity' on the database.\n5. Temporary mitigation: Scale up service replicas to distribute load.\n6. Post-resolution: Verify error rates return to baseline (<0.5%) within 10 minutes.",
     tags |-> <<"database", "connection-pool", "order-service", "critical">>,
     content |-> "Database Connection Pool Exhaustion Runbook. When the order-service database connection pool is exhausted, all requests that require database access will fail. This typically manifests as DB_POOL_EXHAUSTED and DB_CONN_TIMEOUT errors. The most common cause is a misconfigured maxPoolSize parameter, often introduced during deployments. The resolution is to rollback the deployment if pool size was changed, or investigate connection leaks if the configuration is correct. Cascading failures in payment-service and notification-service are expected as they depend on order-service for order data validation."],
    [title |-> "Upstream Service Timeout Errors",
     service |-> "payment-service",
     symptoms |-> "Timeout errors when calling upstream services, UPSTREAM_TIMEOUT error codes, circuit breaker open for upstream dependencies, elevated retry rates.",
     resolution_steps |-> "1. Identify which upstream service is timing out from error logs.\n2. Check the health of the upstream service using its /healthz endpoint.\n3. If upstream is degraded: Focus on fixing the upstream service first.\n4. Temporary mitigation: Increase timeout thresholds or enable graceful degradation mode.\n5. If upstream is healthy: Check network connectivity and DNS resolution.\n6. Monitor circuit breaker status: it should auto-close once upstream recovers.",
     tags |-> <<"timeout", "upstream", "payment-service", "circuit-breaker">>,
     content |-> "Upstream Service Timeout Runbook. When payment-service experiences timeouts calling upstream services, it is usually caused by degradation in the upstream service rather than a payment-service issue itself. First identify and resolve the upstream issue. The circuit breaker will automatically recover once the upstream service returns to health."],
    [title |-> "Notification Queue Backlog",
     service |-> "notification-service",
     symptoms |-> "Notification queue growing rapidly, QUEUE_BACKLOG warnings, failed notification deliveries, missing order data errors.",
     resolution_steps |-> "1. Check queue depth: if >500 pending, investigate upstream dependencies.\n2. Verify order-service connectivity.\n3. If order-service is down: Enable fallback mode to send basic notifications without order enrichment.\n4. If queue is stuck: Restart notification workers.\n5. Once upstream recovers: Queue will drain automatically.\n6. Verify no notifications were permanently lost by checking dead letter queue.",
     tags |-> <<"queue", "notification-service", "backlog">>,
     content |-> "Notification Queue Backlog Runbook. The notification-service enriches notifications with data from order-service. When order-service is unavailable, the queue backs up. Enable fallback mode for basic notifications and wait for upstream recovery."],
    [title |-> "API Gateway 502 Bad Gateway Errors",
     service |-> "api-gateway",
     symptoms |-> "502 Bad Gateway responses, BAD_GATEWAY and GATEWAY_TIMEOUT error codes, elevated error rate on specific routes.",
     resolution_steps |-> "1. Identify which backend service routes are returning 502.\n2. Check the health of the affected backend service.\n3. If backend is down: Work on restoring the backend service.\n4. Temporary mitigation: Configure fallback responses or maintenance pages.\n5. Monitor retry storms: Disable automatic retries if they are amplifying the problem.\n6. Once backend recovers, 502 errors will resolve automatically.",
     tags |-> <<"gateway", "502", "api-gateway", "routing">>,
     content |-> "API Gateway 502 Errors Runbook. 502 errors from the gateway indicate that a backend service is not responding. This is a symptom, not a root cause. Focus on identifying and fixing the backend service issue."],
    [title |-> "High CPU Utilization Alert",
     service |-> "order-service",
     symptoms |-> "CPU usage above 80%, degraded response times, potential thread starvation, increased garbage collection pauses.",
     resolution_steps |-> "1. Check if high CPU correlates with traffic spike (check requests_per_second).\n2. If traffic is normal: Look for runaway queries or infinite loops in recent deployments.\n3. Take a thread dump to identify hot threads.\n4. Temporary mitigation: Scale horizontally by adding more replicas.\n5. If caused by specific query: Add database indexes or optimize the query.\n6. Monitor: CPU should return to <50% within 15 minutes of mitigation.",
     tags |-> <<"cpu", "performance", "order-service">>,
     content |-> "High CPU Utilization Runbook. High CPU in order-service can be caused by traffic spikes, inefficient queries, or code regressions. First check if the CPU spike correlates with a recent deployment or traffic increase."],
    [title |-> "Memory Leak Detection and Response",
     service |-> "user-service",
     symptoms |-> "Steadily increasing memory usage over time, OutOfMemoryError exceptions, increasing garbage collection frequency and duration.",
     resolution_steps |-> "1. Check memory trends: Is usage growing linearly over hours/days?\n2. If sudden spike: Likely caused by a specific request pattern or data load.\n3. Take heap dump for analysis: kubectl exec -it pod -- jmap -dump:format=b,file=/tmp/heap.bin <pid>\n4. Temporary mitigation: Rolling restart of affected pods.\n5. Long-term: Identify leak source from heap dump and fix in code.\n6. Add memory alerts at 80% and 90% thresholds.",
     tags |-> <<"memory", "leak", "user-service">>,
     content |-> "Memory Leak Runbook. Memory leaks manifest as steadily increasing memory usage. Take a heap dump for analysis and perform rolling restarts as temporary mitigation."],
    [title |-> "SSL Certificate Expiry",
     service |-> "api-gateway",
     symptoms |-> "SSL handshake failures, certificate expiry warnings in logs, HTTPS connections failing.",
     resolution_steps |-> "1. Check certificate expiry: openssl s_client -connect host:443 | openssl x509 -noout -dates\n2. If expired: Renew certificate immediately via cert-manager or manual process.\n3. If expiring soon: Schedule renewal during maintenance window.\n4. Update monitoring to alert 30 days before expiry.\n5. Verify renewal by checking HTTPS connectivity from external endpoint.",
     tags |-> <<"ssl", "certificate", "api-gateway", "security">>,
     content |-> "SSL Certificate Expiry Runbook. SSL certificates must be renewed before expiry. Use cert-manager for automatic renewal. If expired, renew immediately and verify HTTPS connectivity."],
    [title |-> "Database Replica Lag",
     service |-> "order-service",
     symptoms |-> "Stale reads from read replicas, replication lag metrics increasing, inconsistent query results between primary and replicas.",
     resolution_steps |-> "1. Check replication lag: SELECT pg_last_wal_replay_lsn() on replica.\n2. If lag >10s: Check replica CPU and I/O utilization.\n3. If replica overloaded: Reduce read traffic or add more replicas.\n4. If network issue: Check connectivity between primary and replica.\n5. Temporary mitigation: Route all reads to primary (increases primary load).\n6. Monitor: Lag should return to <1s within 30 minutes.",
     tags |-> <<"database", "replication", "order-service", "lag">>,
     content |-> "Database Replica Lag Runbook. Replication lag causes stale reads. Check replica resource utilization and network connectivity. Temporarily route reads to primary if needed."],
    [title |-> "Rate Limiting Threshold Breach",
     service |-> "api-gateway",
     symptoms |-> "429 Too Many Requests responses increasing, rate limit warnings in logs, specific clients or IPs hitting limits.",
     resolution_steps |-> "1. Identify which clients/IPs are hitting rate limits.\n2. Check if this is legitimate traffic growth or an attack.\n3. If legitimate: Increase rate limit thresholds for affected clients.\n4. If attack: Enable IP blocking and notify security team.\n5. Monitor: Verify 429 responses decrease after adjustment.\n6. Consider implementing per-client rate limit tiers.",
     tags |-> <<"rate-limit", "api-gateway", "traffic">>,
     content |-> "Rate Limiting Runbook. Rate limit breaches can be caused by legitimate traffic growth or attacks. Identify the source and adjust limits or block malicious traffic accordingly."],
    [title |-> "Service Deployment Rollback Procedure",
     service |-> "order-service",
     symptoms |-> "Any service degradation that correlates with a recent deployment. Elevated error rates, latency spikes, or feature regressions following a deploy.",
     resolution_steps |-> "1. Confirm the issue correlates with a recent deployment (check deployment timestamps vs error spike).\n2. Decision: If error rate >10% or P99 latency >5x baseline, proceed with rollback.\n3. Execute rollback: kubectl rollout undo deployment/<service-name> -n production\n4. Or redeploy previous version: helm upgrade <service> --set image.tag=<previous-version>\n5. Monitor for 10 minutes: Error rates should drop within 5 minutes.\n6. If rollback successful: Create post-mortem ticket and investigate root cause.\n7. If rollback doesn't help: The issue may not be deployment-related, investigate other causes.",
     tags |-> <<"rollback", "deployment", "procedure", "order-service">>,
     content |-> "Service Deployment Rollback Runbook. When a deployment causes service degradation, rollback to the previous version. Verify the issue correlates with deployment timing, then execute rollback and monitor recovery. Create a post-mortem ticket for investigation."] >>

DocTypes == {"log", "metric", "deployment", "runbook", "alert"}

\* the outcome of one loop iteration: whether a document is appended, its
\* keys, the number of draws taken from the random module
Iteration(appended, doc, draws) ==
    [appended |-> appended, keys |-> IF appended THEN DOMAIN doc ELSE {},
     draws |-> draws]

\* LogDict with the trace_id key left out when the uuid starts with a digit
LogDict_TraceIfLetter(service, t, second_offset, entry, is_error, trace_id, host, path, response_time) ==
    LET doc == [timestamp |-> ts(RAdd(RInt(t), RDiv(second_offset, RInt(60)))),
                level |-> entry[1],
                service |-> service,
                message |-> IF is_error THEN <<entry[2], None>>
                                        ELSE <<entry[2], trace_id>>,
                host |-> host,
                request_path |-> path,
                response_time_ms |-> response_time]
        traced == IF trace_id \in {"3f2a9c1d"} THEN doc
                  ELSE [k \in DOMAIN doc \cup {"trace_id"} |->
                           IF k = "trace_id" THEN "trace-" \o trace_id ELSE doc[k]]
    IN  IF entry[3] # None
        THEN [k \in DOMAIN traced \cup {"error_code"} |->
                 IF k = "error_code" THEN entry[3] ELSE traced[k]]
        ELSE traced

\* the dict generate_logs appends: eight keys, and error_code if the entry
\* has one; the message is the template and what replaces {trace_id} in it
LogDict(service, t, second_offset, entry, is_error, trace_id, host, path, response_time) ==
    LET doc == [timestamp |-> ts(RAdd(RInt(t), RDiv(second_offset, RInt(60)))),
                level |-> entry[1],
                service |-> service,
                message |-> IF is_error THEN <<entry[2], None>>
                                        ELSE <<entry[2], trace_id>>,
                trace_id |-> "trace-" \o trace_id,
                host |-> host,
                request_path |-> path,
                response_time_ms |-> response_time]
    IN  IF entry[3] # None
        THEN [k \in DOMAIN doc \cup {"error_code"} |->
                 IF k = "error_code" THEN entry[3] ELSE doc[k]]
        ELSE doc

\* one iteration of `for i in range(count)` of generate_logs, at a minute of
\* the peak: second_offset, host, path and random() are drawn, then either
\* the iteration is abandoned (continue) or an entry and a response time
\* are drawn too
LogIteration(service, is_error, k, host, hex) ==
    LET trace_id == Hex8(hex)
        table == IF is_error THEN ErrorTable(service)
                 ELSE NORMAL_LOG_MESSAGES[service]
    IN  IF table = <<>>
        THEN Iteration(FALSE, NoDoc, 4)
        ELSE Iteration(TRUE,
                 LogDict(service, INCIDENT_PEAK_MIN, RInt(0),
                         table[((k - 1) % Len(table)) + 1], is_error,
                         trace_id, host, "/healthz", 300), 6)

\* one iteration of the host loop of generate_metrics: six jitter draws
MetricIteration(service, minute) ==
    LET u == CHOOSE d \in JitterDraws : TRUE
    IN  Iteration(TRUE,
            MetricDoc(service, HOSTS[service][1], minute,
                      get_incident_multipliers(service, minute), u, 1), 6)

\* the i-th document of generate_deployments: one draw (the deployer) for a
\* historical one, none for the last two
DeploymentIteration(i, deployer, hex) ==
    IF i <= Len(historical)
    THEN Iteration(TRUE, HistoricalDeployment(historical[i], deployer, hex), 1)
    ELSE IF i = Len(historical) + 1 THEN Iteration(TRUE, BadDeployment, 0)
    ELSE Iteration(TRUE, RollbackDeployment, 0)

\* the i-th document of generate_alerts: no draw
AlertIteration(i, hex) ==
    IF i <= Len(historical_alerts)
    THEN Iteration(TRUE, HistoricalAlert(historical_alerts[i], hex), 0)
    ELSE IF i = Len(historical_alerts) + 1 THEN Iteration(TRUE, CriticalAlert, 0)
    ELSE Iteration(TRUE, CascadingAlert, 0)

\* a run before its first document
NewRun ==
    [count |-> [t \in DocTypes |-> 0], keys |-> {}, draws |-> 0, uuid |-> 0]

\* the run after an iteration that built a document of the type
After(run, type, it, u) ==
    [count |-> [run.count EXCEPT ![type] = @ + (IF it.appended THEN 1 ELSE 0)],
     keys |-> it.keys, draws |-> it.draws, uuid |-> u]

\* what the pair of runs leaves alone
run_frame == <<gen_vars, ev_vars, ck_vars, sk_vars, tr_vars, rc_vars>>

InitRuns ==
    /\ pc = "runs"
    /\ GenIdle
    /\ EventsIdle
    /\ ClockIdle
    /\ SinkIdle
    /\ TriggerIdle
    /\ ReceiverIdle
    /\ run_a = NewRun
    /\ run_b = NewRun

\* both runs execute an iteration of generate_logs with the same draws
RunsLog ==
    /\ pc = "runs"
    /\ run_a.count["log"] < MaxRunDocs
    /\ \E service \in DOMAIN HOSTS, is_error \in BOOLEAN, k \in 1 .. 3 :
       \E h \in 1 .. 2 : \E ua \in Uuids, ub \in Uuids :
          LET host == HOSTS[service][h] IN
          /\ run_a' = After(run_a, "log",
                            LogIteration(service, is_error, k, host, uuid4_hex(ua)), ua)
          /\ run_b' = After(run_b, "log",
                            LogIteration(service, is_error, k, host, uuid4_hex(ub)), ub)
    /\ UNCHANGED pc
    /\ UNCHANGED run_frame

\* both runs execute an iteration of generate_metrics
RunsMetric ==
    /\ pc = "runs"
    /\ run_a.count["metric"] < MaxRunDocs
    /\ \E service \in DOMAIN HOSTS, minute \in {0, INCIDENT_PEAK_MIN} :
          /\ run_a' = After(run_a, "metric", MetricIteration(service, minute), 0)
          /\ run_b' = After(run_b, "metric", MetricIteration(service, minute), 0)
    /\ UNCHANGED pc
    /\ UNCHANGED run_frame

\* both runs append a document of generate_deployments, with the same deployer
RunsDeployment ==
    /\ pc = "runs"
    /\ run_a.count["deployment"] < MaxRunDocs
    /\ \E i \in 1 .. Len(historical) + 2, d \in 1 .. Len(DEPLOYERS) :
       \E ua \in Uuids, ub \in Uuids :
          /\ run_a' = After(run_a, "deployment",
                            DeploymentIteration(i, DEPLOYERS[d], uuid4_hex(ua)), ua)
          /\ run_b' = After(run_b, "deployment",
                            DeploymentIteration(i, DEPLOYERS[d], uuid4_hex(ub)), ub)
    /\ UNCHANGED pc
    /\ UNCHANGED run_frame

\* both runs call generate_runbooks
RunsRunbooks ==
    /\ pc = "runs"
    /\ run_a.count["runbook"] = 0
    /\ LET docs == generate_runbooks
           it == Iteration(TRUE, docs[Len(docs)], 0)
       IN  /\ run_a' = [After(run_a, "runbook", it, 0) EXCEPT
                            !.count["runbook"] = Len(docs)]
           /\ run_b' = [After(run_b, "runbook", it, 0) EXCEPT
                            !.count["runbook"] = Len(docs)]
    /\ UNCHANGED pc
    /\ UNCHANGED run_frame

\* both runs append a document of generate_alerts
RunsAlert ==
    /\ pc = "runs"
    /\ run_a.count["alert"] < MaxRunDocs
    /\ \E i \in 1 .. Len(historical_alerts) + 2 : \E ua \in Uuids, ub \in Uuids :
          /\ run_a' = After(run_a, "alert", AlertIteration(i, uuid4_hex(ua)), ua)
          /\ run_b' = After(run_b, "alert", AlertIteration(i, uuid4_hex(ub)), ub)
    /\ UNCHANGED pc
    /\ UNCHANGED run_frame

NextRuns ==
    \/ RunsLog
    \/ RunsMetric
    \/ RunsDeployment
    \/ RunsRunbooks
    \/ RunsAlert

SpecRuns == InitRuns /\ [][NextRuns]_vars

----------------------------------------------------------------------------
(* The on-call receiver, src/demo/oncall_receiver.py *)

\* The query of fetch_all_docs asks for the 100 oldest documents ("size": 100,
\* "@timestamp" ascending).  The model keeps the page smaller than the index
\* can grow, as 100 is smaller than what the index can hold.
PageSize == 2
MaxIncidents == 3

\* an id is the position of the document in the index, oldest first: a
\* document written later carries a later "@timestamp"
Ids == 1 .. MaxIncidents

\* str.lower() on the values of "type" the documents carry
Lower(s) ==
    CASE s = "ONCALL_NOTIFICATION" -> "oncall_notification"
      [] s = "Remediation_Action" -> "remediation_action"
      [] OTHER -> s

\* the documents written to resolve-incidents: the explicit "type" ("" when
\* the key is absent) and the other keys of _source
Sources ==
    { [type |-> "ONCALL_NOTIFICATION", keys |-> {"message", "title"}],
      [type |-> "", keys |-> {"details", "service"}],
      [type |-> "", keys |-> {"title", "summary", "details"}] }

detect_doc_type(doc) ==
    LET explicit == Lower(doc.type) IN
    IF explicit = "oncall_notification" THEN "oncall_notification"
    ELSE IF explicit = "remediation_action" THEN "remediation_action"
    ELSE IF \/ "actions" \in doc.keys
            \/ "action_type" \in doc.keys
            \/ ("details" \in doc.keys /\ "title" \notin doc.keys)
         THEN "remediation_action"
    ELSE IF "message" \in doc.keys /\ "title" \notin doc.keys
         THEN "oncall_notification"
    ELSE "incident"

\* the hits Elasticsearch returns for the query of fetch_all_docs: the ids of
\* the first `size` documents in ascending "@timestamp" order
search(index) ==
    [hits |-> [k \in 1 .. (IF Len(index) < PageSize THEN Len(index) ELSE PageSize) |-> k]]

\* fetch_all_docs: result is None (NoDoc) when es_request caught HTTPError or
\* URLError
fetch_all_docs(result) == IF result = NoDoc THEN <<>> ELSE result.hits

\* what es_request can return for the search
Results(index) == {NoDoc, search(index)}

\* any page of hits: repeated, reordered or empty
AnyHits(index) ==
    UNION { [1 .. n -> 1 .. Len(index)] : n \in 0 .. PageSize }

PollStep_NoSeenCheck(index, doc_id, st) ==
    [seen |-> st.seen \union {doc_id},
     rendered |-> [st.rendered EXCEPT ![doc_id] =
                      Append(@, detect_doc_type(index[doc_id]))],
     skipped |-> st.skipped]

\* the body of `for doc in docs` of the polling loop
PollStep(index, doc_id, st) ==
    IF doc_id \in st.seen
    THEN [st EXCEPT !.skipped = @ \/ st.rendered[doc_id] # <<>>]
    ELSE [seen |-> st.seen \union {doc_id},
          rendered |-> [st.rendered EXCEPT ![doc_id] =
                           Append(@, detect_doc_type(index[doc_id]))],
          skipped |-> st.skipped]

\* `for doc in docs`
RECURSIVE PollLoop(_, _, _, _)
PollLoop(index, docs, k, st) ==
    IF k > Len(docs) THEN st
    ELSE PollLoop(index, docs, k + 1, PollStep(index, docs[k], st))

rc_frame == <<gen_vars, ev_vars, ck_vars, sk_vars, tr_vars, run_vars>>

InitReceiver ==
    /\ pc = "connect"
    /\ GenIdle
    /\ EventsIdle
    /\ ClockIdle
    /\ SinkIdle
    /\ TriggerIdle
    /\ RunsIdle
    /\ incidents = <<>>
    /\ rc_existing = {}
    /\ seen_ids = {}
    /\ rendered = [id \in Ids |-> <<>>]
    /\ rc_skipped = FALSE

\* an agent writes a document to resolve-incidents
IndexIncident ==
    /\ pc \in {"connect", "poll"}
    /\ Len(incidents) < MaxIncidents
    /\ \E source \in Sources : incidents' = Append(incidents, source)
    /\ UNCHANGED <<pc, rc_existing, seen_ids, rendered, rc_skipped>>
    /\ UNCHANGED rc_frame

\* main before the loop: seen_ids is seeded with what the fetch returns
SeedWith(existing) ==
    /\ pc = "connect"
    /\ seen_ids' = seen_ids \union {existing[k] : k \in 1 .. Len(existing)}
    /\ rc_existing' = 1 .. Len(incidents)
    /\ pc' = "poll"
    /\ UNCHANGED <<incidents, rendered, rc_skipped>>
    /\ UNCHANGED rc_frame

Seed == \E result \in Results(incidents) : SeedWith(fetch_all_docs(result))

\* an iteration of `while True`
PollWith(docs) ==
    /\ pc = "poll"
    /\ LET st == PollLoop(incidents, docs, 1,
                    [seen |-> seen_ids, rendered |-> rendered, skipped |-> FALSE])
       IN /\ seen_ids' = st.seen
          /\ rendered' = st.rendered
          /\ rc_skipped' = st.skipped
    /\ UNCHANGED <<pc, incidents, rc_existing>>
    /\ UNCHANGED rc_frame

Poll == \E result \in Results(incidents) : PollWith(fetch_all_docs(result))

\* the iterations whose search succeeded
PollFound == PollWith(fetch_all_docs(search(incidents)))

\* KeyboardInterrupt in the loop
Interrupt ==
    /\ pc = "poll"
    /\ pc' = "stopped"
    /\ UNCHANGED rc_vars
    /\ UNCHANGED rc_frame

NextReceiver ==
    \/ IndexIncident
    \/ Seed
    \/ Poll
    \/ Interrupt

SpecReceiver == InitReceiver /\ [][NextReceiver]_vars

\* the receiver keeps polling, and a search that would show something new
\* eventually succeeds
NextReceiverLive ==
    \/ IndexIncident
    \/ Seed
    \/ Poll

SpecReceiverLive ==
    /\ InitReceiver
    /\ [][NextReceiverLive]_vars
    /\ WF_vars(Seed)
    /\ WF_vars(PollFound)

\* the receiver against a search that may return any page of hits
SeedAny == \E hits \in AnyHits(incidents) : SeedWith(hits)

PollAny == \E hits \in AnyHits(incidents) : PollWith(hits)

NextReceiverAny ==
    \/ IndexIncident
    \/ SeedAny
    \/ PollAny
    \/ Interrupt

SpecReceiverAny == InitReceiver /\ [][NextReceiverAny]_vars

----------------------------------------------------------------------------
(* Properties *)

ServiceOf(k) == IF k = 0 THEN None ELSE SERVICES[k]

InMetrics == pc = "metrics" /\ m_service >= 1
InLogs == pc = "logs" /\ lg_service >= 1

PhaseRank(p) ==
    IF p = None THEN 0 ELSE CHOOSE k \in 1..Len(Phases) : Phases[k] = p

\* the half-open intervals [0,60), [60,66), [66,80), [80,85), [85,90), [90,120)
PhaseStart == <<0, INCIDENT_START_MIN, INCIDENT_PEAK_MIN, ROLLBACK_MIN,
                RECOVERY_MIN, RESOLVED_MIN>>
PhaseEnd == <<INCIDENT_START_MIN, INCIDENT_PEAK_MIN, ROLLBACK_MIN, RECOVERY_MIN,
              RESOLVED_MIN, TOTAL_MINUTES>>
PhasesContaining(t) ==
    {Phases[k] : k \in {j \in 1..Len(Phases) : PhaseStart[j] <= t /\ t < PhaseEnd[j]}}

\* C1: every minute the loops visit lies in exactly one of the six half-open
\* phase intervals, the log generator's dispatch and the multiplier
\* function's dispatch both put it in that phase, and so they agree.
C1_PhasePartition ==
    /\ InLogs =>
          /\ PhasesContaining(lg_minute) = {lg_phase}
          /\ MultPhase(lg_minute) = lg_phase
    /\ InMetrics =>
          /\ PhasesContaining(m_minute) = {MultPhase(m_minute)}
          /\ LogPhase(m_minute) = MultPhase(m_minute)

\* a boundary minute, owned by the phase that starts there
C1_Witness ==
    /\ InLogs /\ lg_minute = ROLLBACK_MIN /\ lg_phase = "rollback"
    /\ lg_appended > 0

\* C2: as generate_logs advances, the minute never decreases and the phase
\* either stays or moves to the next of baseline, ramp-up, peak, rollback,
\* recovery, resolved; the run starts in baseline and ends in resolved.
C2_LinearPhases ==
    /\ [][/\ lg_minute' >= lg_minute
          /\ PhaseRank(lg_phase') \in {PhaseRank(lg_phase), PhaseRank(lg_phase) + 1}]_vars
    /\ [](pc # "logs" => lg_phase = "resolved")

C2_Witness == pc = "metrics" /\ lg_phase = "resolved" /\ lg_minute = TOTAL_MINUTES - 1

IncidentWindow == INCIDENT_START_MIN .. RESOLVED_MIN - 1

\* C3: for user-service, mult is 1 in all six dimensions at every minute of
\* the incident window.
C3_UserServiceIdentity ==
    (InMetrics /\ ServiceOf(m_service) = "user-service" /\ m_minute \in IncidentWindow)
        => \A d \in Dimensions : mult[d] = RInt(1)

C3_Witness ==
    /\ InMetrics /\ ServiceOf(m_service) = "user-service"
    /\ m_minute = INCIDENT_PEAK_MIN /\ m_host = 1

\* C4: for payment-service, mult is the identity vector at every ramp-up
\* minute t with (t - 60) / 6 <= 0.3.
C4_PaymentDelayedOnset ==
    (/\ InMetrics /\ ServiceOf(m_service) = "payment-service"
     /\ m_minute >= INCIDENT_START_MIN /\ m_minute < INCIDENT_PEAK_MIN
     /\ RLe(Rat(m_minute - INCIDENT_START_MIN, INCIDENT_PEAK_MIN - INCIDENT_START_MIN),
            Rat(3, 10)))
        => mult = Identity

\* a ramp-up minute with progress in (0, 0.3]
C4_Witness ==
    /\ InMetrics /\ ServiceOf(m_service) = "payment-service"
    /\ m_minute = INCIDENT_START_MIN + 1 /\ m_host = 1

Deviates(service, minute) == get_incident_multipliers(service, minute) # Identity
DeviatesBefore(service, minute) == \E t \in 0 .. minute - 1 : Deviates(service, t)

\* C5: whenever payment-service's mult is not the identity, order-service's
\* was not the identity at an earlier minute, and whenever
\* notification-service's is not the identity, payment-service's was not at
\* an earlier minute: the first minutes of deviation are strictly ordered
\* order-service, payment-service, notification-service.
C5_OnsetOrder ==
    (InMetrics /\ mult # Identity) =>
        /\ ServiceOf(m_service) = "payment-service"
              => DeviatesBefore("order-service", m_minute)
        /\ ServiceOf(m_service) = "notification-service"
              => DeviatesBefore("payment-service", m_minute)

\* notification-service deviating while the incident still ramps up
C5_Witness ==
    /\ InMetrics /\ ServiceOf(m_service) = "notification-service"
    /\ mult # Identity /\ m_minute < INCIDENT_PEAK_MIN

IsErrorLog(doc) == doc # NoDoc /\ doc.error_code # None
CanLogError(service, t) == TRUE \in IsErrorDraws(LogProfile(service, t).error_ratio)

\* C6: an error log of payment-service or notification-service is only
\* emitted at a minute later than one at which order-service can emit an
\* error log.
C6_LogErrorsDelayed ==
    (InLogs /\ lg_appended > 0 /\ IsErrorLog(log)
     /\ ServiceOf(lg_service) \in {"payment-service", "notification-service"})
        => \E t \in 0 .. lg_minute - 1 : CanLogError("order-service", t)

\* C7: for order-service at every peak minute, the error rate after the cap
\* and before jitter is at least 0.4.
C7_OrderPeakErrorRate ==
    (/\ InMetrics /\ ServiceOf(m_service) = "order-service"
     /\ m_minute >= INCIDENT_PEAK_MIN /\ m_minute < ROLLBACK_MIN)
        => RLe(Rat(4, 10), EffectiveErrorRate(BASELINE_METRICS["order-service"], mult))

C7_Witness ==
    /\ InMetrics /\ ServiceOf(m_service) = "order-service"
    /\ m_minute = ROLLBACK_MIN - 1 /\ m_host = 3

\* C8: every metric document has active_connections >= 1 and
\* requests_per_second >= 10 (100 tenths).
C8_ConnectionAndRpsFloors ==
    metric # NoDoc =>
        /\ metric.active_connections >= 1
        /\ metric.requests_per_second >= 100

\* the lowest request rate of the run: payment-service at the peak, with the
\* jitter at its lower end
C8_Witness ==
    /\ metric # NoDoc
    /\ metric.service = "payment-service"
    /\ metric.requests_per_second < 1200

\* C9: every metric document has error_rate <= 0.95 (9500 ten-thousandths),
\* cpu_percent <= 98 (980 tenths) and memory_percent <= 95 (950 tenths).
C9_Caps ==
    metric # NoDoc =>
        /\ metric.error_rate <= 9500
        /\ metric.cpu_percent <= 980
        /\ metric.memory_percent <= 950

\* order-service at the peak with the jitter at its upper end
C9_Witness ==
    /\ metric # NoDoc
    /\ metric.service = "order-service"
    /\ metric.cpu_percent > 900
    /\ metric.error_rate > 4500

AllTriples ==
    UNION {{<<t, SERVICES[k], HOSTS[SERVICES[k]][h]>> :
                h \in 1 .. Len(HOSTS[SERVICES[k]])} :
           t \in 0 .. TOTAL_MINUTES - 1, k \in 1 .. Len(SERVICES)}

CuratedErrors == [s \in DOMAIN HOSTS |->
    CASE s = "order-service" -> INCIDENT_ERROR_MESSAGES_ORDER
      [] s = "payment-service" -> INCIDENT_ERROR_MESSAGES_PAYMENT
      [] s = "notification-service" -> INCIDENT_ERROR_MESSAGES_NOTIF
      [] s = "api-gateway" -> INCIDENT_ERROR_MESSAGES_GATEWAY
      [] OTHER -> <<>>]

EntriesOf(service) ==
    {CuratedErrors[service][k] : k \in 1 .. Len(CuratedErrors[service])}

\* C11: every log document that carries an error_code has a
\* (level, message, error_code) triple that is an entry of the curated error
\* table of the service that emitted it.
C11_ErrorsFromOwnTable ==
    IsErrorLog(log) =>
        <<log.level, log.message, log.error_code>> \in EntriesOf(log.service)

\* an error log of a downstream service, drawn in the incident
C11_Witness ==
    /\ IsErrorLog(log)
    /\ log.service = "notification-service"
    /\ log.error_code = "QUEUE_BACKLOG"
    /\ log.level = "warn"

OtherServices(service) == DOMAIN HOSTS \ {service}

UsesProgress ==
    /\ pc = "doc"
    /\ m_minute \in IncidentWindow
    /\ ServiceOf(m_service) # "user-service"

\* (minute - phase_start) / (phase_end - phase_start) of the phase that
\* contains the minute
PhaseFraction(minute) ==
    LET k == CHOOSE j \in 1 .. Len(Phases) :
                 PhaseStart[j] <= minute /\ minute < PhaseEnd[j]
    IN  Rat(minute - PhaseStart[k], PhaseEnd[k] - PhaseStart[k])

InUnit(r) == RLe(RInt(0), r) /\ RLe(r, RInt(1))

PeakMinutes == INCIDENT_PEAK_MIN .. ROLLBACK_MIN - 1

\* C17 as stated: at every incident-window minute progress equals
\* (minute - phase_start) / (phase_end - phase_start), lies in [0,1], and is
\* exactly 1 at the peak minutes 66..79.
C17_ProgressIsPhaseFraction ==
    UsesProgress =>
        /\ m_minute \notin PeakMinutes =>
               Progress(m_minute) = PhaseFraction(m_minute)
        /\ InUnit(Progress(m_minute))
        /\ m_minute \in PeakMinutes => Progress(m_minute) = RInt(1)

\* what progress is in each phase, f being the phase fraction: f in the
\* ramp-up, 1 at the peak, 1 - f/2 in the rollback, (1 - f)/2 in the recovery
ProgressByPhase(minute) ==
    LET f == PhaseFraction(minute) IN
    IF minute < INCIDENT_PEAK_MIN THEN f
    ELSE IF minute < ROLLBACK_MIN THEN RInt(1)
    ELSE IF minute < RECOVERY_MIN THEN RSub(RInt(1), RDiv(f, RInt(2)))
    ELSE RDiv(RSub(RInt(1), f), RInt(2))

\* C17 amended: at every incident-window minute progress lies in [0,1]; it
\* equals the phase fraction f in the ramp-up, is exactly 1 at the peak
\* minutes 66..79, falls as 1 - f/2 in the rollback and as (1 - f)/2 in the
\* recovery; the order-service latency multiplier is 1 + 20 * progress.
C17_ProgressByPhase ==
    UsesProgress =>
        /\ Progress(m_minute) = ProgressByPhase(m_minute)
        /\ InUnit(Progress(m_minute))
        /\ m_minute \in PeakMinutes => Progress(m_minute) = RInt(1)
        /\ ServiceOf(m_service) = "order-service" =>
               mult.latency = RAdd(RInt(1), RMul(RInt(20), ProgressByPhase(m_minute)))

\* a rollback minute, where progress has left 1 and is not the phase fraction
C17_Witness ==
    /\ UsesProgress
    /\ m_minute = ROLLBACK_MIN + 2
    /\ ServiceOf(m_service) = "order-service"
    /\ mult.latency = RInt(17)
    /\ metric # NoDoc

\* C18: for every service and every minute outside the incident window
\* (minute < 60 or minute >= 90) get_incident_multipliers returns the
\* identity vector, all six dimensions equal to 1.
C18_IdentityOutsideWindow ==
    (pc = "doc" /\ m_minute \notin IncidentWindow) =>
        \A d \in Dimensions : mult[d] = RInt(1)

\* a document of the incident's service built just after the window closes
C18_Witness ==
    /\ pc = "doc"
    /\ m_minute = RESOLVED_MIN
    /\ ServiceOf(m_service) = "order-service"
    /\ \A d \in Dimensions : mult[d] = RInt(1)
    /\ metric # NoDoc
DocsWhere(docs, P(_)) == {k \in 1 .. Len(docs) : P(docs[k])}

IsBadDeployment(d) ==
    d.version = "2.4.1" /\ d.status = "success"
        /\ Contains(d.changes, "FORGOT TO REVERT")

IsRollbackOfBad(d) ==
    d.status = "rollback" /\ "rollback_of" \in DOMAIN d /\ d.rollback_of = "2.4.1"

\* C13: the sequence generate_deployments returns has exactly one document
\* with version 2.4.1, status success and a changes text containing
\* "FORGOT TO REVERT", and exactly one document with status rollback and
\* rollback_of 2.4.1 (no other document is a rollback or has rollback_of);
\* the rollback comes later in position and in timestamp, minute 58 before
\* minute 80.
C13_BadThenRollback ==
    pc = "deployments_returned" =>
        /\ Cardinality(DocsWhere(deployments, IsBadDeployment)) = 1
        /\ Cardinality(DocsWhere(deployments, IsRollbackOfBad)) = 1
        /\ \A k \in 1 .. Len(deployments) :
              (deployments[k].status = "rollback" \/ "rollback_of" \in DOMAIN deployments[k])
                  => IsRollbackOfBad(deployments[k])
        /\ \A b \in DocsWhere(deployments, IsBadDeployment) :
           \A r \in DocsWhere(deployments, IsRollbackOfBad) :
              /\ b < r
              /\ deployments[b].timestamp = 58 * 60
              /\ deployments[r].timestamp = ROLLBACK_MIN * 60
              /\ deployments[b].timestamp < deployments[r].timestamp

\* generate_deployments has returned its seven documents, the historical
\* ones from more than one deployer
C13_Witness ==
    /\ pc = "deployments_returned"
    /\ Len(deployments) = Len(historical) + 2
    /\ deployments[1].deployer # deployments[2].deployer
    /\ IsBadDeployment(deployments[Len(deployments) - 1])
    /\ IsRollbackOfBad(deployments[Len(deployments)])

IsCritical(a) == a.severity = "critical"
IsHigh(a) == a.severity = "high"

\* C14: the sequence generate_alerts returns has exactly one critical alert,
\* for order-service with actual_value 0.45 at the alert-fire minute, and
\* exactly one high alert, for payment-service, timestamped strictly after
\* the critical one; both are firing, and every other alert is resolved, of
\* severity low or medium, and timestamped before the incident starts.
C14_CriticalThenHigh ==
    pc = "alerts_returned" =>
        /\ Cardinality(DocsWhere(alerts, IsCritical)) = 1
        /\ Cardinality(DocsWhere(alerts, IsHigh)) = 1
        /\ \A c \in DocsWhere(alerts, IsCritical) :
              /\ alerts[c].service = "order-service"
              /\ alerts[c].actual_value = Rat(45, 100)
              /\ alerts[c].timestamp = ALERT_FIRE_MIN * 60
              /\ alerts[c].status = "firing"
              /\ \A h \in DocsWhere(alerts, IsHigh) :
                    alerts[c].timestamp < alerts[h].timestamp
        /\ \A h \in DocsWhere(alerts, IsHigh) :
              /\ alerts[h].service = "payment-service"
              /\ alerts[h].status = "firing"
        /\ \A k \in 1 .. Len(alerts) :
              ~IsCritical(alerts[k]) /\ ~IsHigh(alerts[k]) =>
                  /\ alerts[k].status = "resolved"
                  /\ alerts[k].severity \in {"low", "medium"}
                  /\ alerts[k].timestamp < INCIDENT_START_MIN * 60

\* generate_alerts has returned its five documents
C14_Witness ==
    /\ pc = "alerts_returned"
    /\ Len(alerts) = Len(historical_alerts) + 2
    /\ alerts[1].alert_id # alerts[2].alert_id
    /\ IsCritical(alerts[Len(alerts) - 1])
    /\ IsHigh(alerts[Len(alerts)])
\* two calls of the same variant of the clock
SameClock == ck_prev # NoDoc /\ ck_last # NoDoc /\ ck_prev.variant = ck_last.variant

\* C16: in both variants of the timeline clock, of two calls the one with
\* the smaller or equal offset never resolves to the later timestamp, and
\* two calls with the same offset resolve to the same timestamp.
C16_ClockMonotonicStable ==
    SameClock =>
        /\ RLe(ck_prev.offset, ck_last.offset) => ck_prev.result <= ck_last.result
        /\ RLe(ck_last.offset, ck_prev.offset) => ck_last.result <= ck_prev.result
        /\ ck_prev.offset = ck_last.offset => ck_prev.result = ck_last.result
\* the index that belongs to each document type
IndexOfType ==
    [t \in {"log", "metric", "deployment", "runbook", "alert"} |->
        CASE t = "log" -> "resolve-logs"
          [] t = "metric" -> "resolve-metrics"
          [] t = "deployment" -> "resolve-deployments"
          [] t = "runbook" -> "resolve-runbooks"
          [] t = "alert" -> "resolve-alerts"]

\* the text is a sequence of n newline-terminated lines
IsLines(text, n) ==
    /\ Len(text) = 2 * n
    /\ \A j \in 1 .. n : text[2 * j] = Newline /\ text[2 * j - 1] # Newline

LineOf(text, j) == text[2 * j - 1]

\* C19: for a sequence of N documents, the text a sink has produced
\* (write_ndjson's file, the body of bulk_index's request) consists of
\* exactly N action/document pairs in input order: line 2k-1 is the index
\* action naming the index of that document's type and line 2k is the
\* encoding of the k-th document.
C19_SinkPairs ==
    pc = "sink_done" =>
        /\ IsLines(sk_body, 2 * Len(sk_docs))
        /\ \A k \in 1 .. Len(sk_docs) :
              /\ LineOf(sk_body, 2 * k - 1) =
                     JsonDumps(IndexAction(IndexOfType[sk_docs[k].type]))
              /\ LineOf(sk_body, 2 * k) = JsonDumps(sk_docs[k])

\* a bulk request for three documents, not all alike
C19_Witness ==
    /\ pc = "sink_done"
    /\ sk_site[1] = "bulk_index"
    /\ Len(sk_docs) = 3
    /\ sk_docs[1] # sk_docs[2]
    /\ Len(sk_body) = 12
\* load_env has returned a dict in which the key is absent or empty
Unset(key) ==
    /\ pc \in {"check_credentials", "run", "exited"}
    /\ env_file.exists
    /\ (<<key>> \notin DOMAIN env \/ env[<<key>>] = <<>>)

FatalConfig ==
    /\ pc # "load_env"
    /\ (~env_file.exists \/ Unset("ES_URL") \/ Unset("API_KEY"))

\* C20: in the live trigger, when the configuration file is missing, or
\* ES_URL or API_KEY is absent or empty, no bulk write is ever issued and
\* the run ends, straight after the credentials test, with exit status 1.
C20_FatalConfigNoWrite ==
    FatalConfig =>
        /\ tr_writes = <<>>
        /\ tr_step = 0
        /\ pc \in {"check_credentials", "exited"}
        /\ pc = "exited" => tr_exit = 1

\* the file sets ES_URL but leaves API_KEY empty, and the run has ended
C20_Witness ==
    /\ pc = "exited"
    /\ env_file.exists
    /\ EnvGet(env, "ES_URL") # <<>>
    /\ <<"API_KEY">> \in DOMAIN env
    /\ EnvGet(env, "API_KEY") = <<>>
    /\ tr_exit = 1
    /\ tr_writes = <<>>
WritesSent == [k \in 1 .. Len(tr_writes) |-> <<tr_writes[k].index, tr_writes[k].docs>>]

\* the run passed the credentials test and has ended
RunEnded == pc = "exited" /\ tr_step > 0

\* C21: in the live trigger, whatever bulk writes fail (HTTP error status,
\* connection failure, timeout), no write is retried and every later write
\* is still issued: a run that sent its first write ends having sent every
\* write of its mode, the last one included.
C21_FailedWriteProceeds ==
    RunEnded =>
        /\ Len(tr_writes) = Len(StepsOf(tr_args))
        /\ tr_exit = 0

\* the bulk writes of an incident injection, in order
InjectionOrder == <<
    <<"resolve-metrics", "gen_baseline_metrics(-180)">>,
    <<"resolve-metrics", "gen_baseline_metrics(-120)">>,
    <<"resolve-metrics", "gen_baseline_metrics(-60)">>,
    <<"resolve-deployments", "gen_bad_deployment()">>,
    <<"resolve-logs", "gen_error_logs(early)">>,
    <<"resolve-metrics", "gen_incident_metrics()">>,
    <<"resolve-logs", "gen_error_logs(peak)">>,
    <<"resolve-alerts", "gen_alert()">> >>

Injecting == pc \in {"run", "exited"} /\ tr_step > 0 /\ ~tr_args.recover

CountLoopDone == lg_service >= 1 /\ lg_i = lg_count

\* C22: for every service and every minute 0..119, generate_logs appends
\* exactly count log documents, count being the volume drawn for the service
\* and phase; so every service has at least 2 and at most 30 log documents
\* at every minute.
C22_ExactlyCountLogs ==
    CountLoopDone =>
        /\ lg_appended = lg_count
        /\ 2 <= lg_appended
        /\ lg_appended <= 30
\* generate_logs is in the count loop of a minute and has appended for it
AppendedThisMinute == InLogs /\ lg_appended > 0

FiringAlerts == << [alert |-> CriticalAlert, minutes |-> 5],
                   [alert |-> CascadingAlert, minutes |-> 3] >>

\* the minutes immediately before the alert's timestamp that its condition
\* covers
MinutesBefore(f) ==
    LET fired == f.alert.timestamp \div 60 IN fired - f.minutes .. fired - 1

\* the error_rate field, kept in units of 0.0001, as a number
EmittedErrorRate(doc) == Rat(doc.error_rate, 10000)

\* C29: each firing alert is backed by the metrics: at each of the minutes
\* its condition covers (5 before minute 70 for order-service, 3 before
\* minute 72 for payment-service) the emitted error_rate of every host of
\* the service exceeds the alert's threshold, for every jitter draw.
C29_AlertsBackedByMetrics ==
    (pc = "doc" /\ metric # NoDoc) =>
        \A k \in 1 .. Len(FiringAlerts) :
            (/\ metric.service = FiringAlerts[k].alert.service
             /\ m_minute \in MinutesBefore(FiringAlerts[k]))
                => RLt(FiringAlerts[k].alert.threshold_value, EmittedErrorRate(metric))

DegradingServices == {"order-service", "payment-service", "notification-service",
                      "api-gateway"}

ErrorRateMult(service, minute) == get_incident_multipliers(service, minute).error_rate

\* C30: for each of order-service, payment-service, notification-service and
\* api-gateway the error_rate multiplier does not fall from a minute to the
\* next up to minute 79 and does not rise from a minute to the next from
\* minute 80 on (84 to 85 included), and at every minute the multiplier of
\* each of the three other services is at most order-service's.
C30_RiseOnceFallOnce ==
    (pc = "doc" /\ ServiceOf(m_service) \in DegradingServices) =>
        LET service == ServiceOf(m_service) IN
        /\ mult.error_rate = ErrorRateMult(service, m_minute)
        /\ m_minute + 1 < ROLLBACK_MIN =>
               RLe(mult.error_rate, ErrorRateMult(service, m_minute + 1))
        /\ (m_minute >= ROLLBACK_MIN /\ m_minute + 1 < TOTAL_MINUTES) =>
               RLe(ErrorRateMult(service, m_minute + 1), mult.error_rate)
        /\ RLe(mult.error_rate, ErrorRateMult("order-service", m_minute))

\* payment-service at the last rollback minute, still above what minute 85
\* brings and below order-service
C30_Witness ==
    /\ pc = "doc"
    /\ ServiceOf(m_service) = "payment-service"
    /\ m_minute = RECOVERY_MIN - 1
    /\ RLt(ErrorRateMult("payment-service", RECOVERY_MIN), mult.error_rate)
    /\ RLt(mult.error_rate, ErrorRateMult("order-service", m_minute))
    /\ metric # NoDoc

InReceiver == pc \in {"connect", "poll", "stopped"}

\* C25: in the polling loop of the on-call receiver a document id is rendered
\* at most once, whatever pages of hits the searches return (repeated,
\* reordered or empty ones included)
C25_RenderedAtMostOnce ==
    InReceiver => \A id \in Ids : Len(rendered[id]) <= 1

\* a poll met again an id it had rendered, and skipped it
C25_Witness ==
    /\ pc = "poll"
    /\ rc_skipped
    /\ \E id \in Ids : Len(rendered[id]) = 1

\* C26: a document that was in resolve-incidents when the receiver started is
\* never rendered, whatever the outcome of the start-up fetch and of the polls
C26_ExistingNeverRendered ==
    InReceiver => \A id \in rc_existing : rendered[id] = <<>>

\* the documents written after the receiver connected
AddedAfterStart(id) ==
    pc = "poll" /\ id <= Len(incidents) /\ id \notin rc_existing

\* C27: every document added to resolve-incidents after the receiver started
\* is eventually rendered, when the receiver keeps polling and its searches
\* eventually succeed, however many documents the index holds
C27_AddedEventuallyRendered ==
    \A id \in Ids : AddedAfterStart(id) ~> (pc = "poll" /\ rendered[id] # <<>>)

====
